---- MODULE Spec2Model ----
(***************************************************************************)
(* A model of the pennsieve-go-llm client: the Governor facade, its three  *)
(* backends (LambdaBackend, AnthropicBackend, MockBackend), the shared     *)
(* request / response / error types and the reply decoding of the Lambda   *)
(* backend.                                                                *)
(*                                                                         *)
(* Go strings are TLA+ strings, slices are sequences, structs are records, *)
(* a nil pointer is the value Nil.                                         *)
(***************************************************************************)
EXTENDS Integers, Sequences, FiniteSets, TLC

VARIABLES
    g,          \* the Governor facade (NoGovernor before NewGovernor)
    b,          \* the LambdaBackend: functionName, lambdaClient
    responses,  \* MockBackend.responses
    callLog,    \* MockBackend.callLog
    mu,         \* MockBackend.mu: the caller holding the lock, or Unlocked
    channel,    \* payloads handed to lambdaClient.Invoke, in order
    a,          \* the AnthropicBackend: apiKey
    http,       \* request bodies posted to the Anthropic Messages API, in order
    thr,        \* per caller: position in the call it is executing
    last,       \* the operation that returned last, with its arguments and results
    hist,       \* history: the sequence last installed in the mock and the
                \* number of Invoke calls answered since
    environ     \* the environment variables of the process the package reads

vars == <<g, b, responses, callLog, mu, channel, a, http, thr, last, hist, environ>>

lambdaVars == <<b, channel>>
anthropicVars == <<a, http>>

Nil == "nil"
NoGovernor == [backend |-> Nil]
Unlocked == 0           \* the zero sync.Mutex
NoResponse == [nil |-> TRUE]    \* a nil *InvokeResponse (or other result pointer)

-----------------------------------------------------------------------------
(* Bounds *)

MaxCalls == 3       \* Invoke calls logged by one mock backend
MaxQueue == 2       \* longest sequence given to SetResponses
NumCallers == 3     \* concurrent callers sharing one backend
MaxSends == 1       \* calls one facade passes on to its backend's transport or log
MaxMsgs == 2        \* messages in a request given to the default echo
MaxBlocks == 2      \* content blocks in one such message
MaxConvMsgs == 2    \* messages in a list given to convertMessages
MaxConvBlocks == 3  \* content blocks in such a list, all messages together
MaxEntries == 3     \* content entries in one response given to Text
MaxAPIBlocks == 2   \* content blocks in one generated reply of the provider

Callers == 1..NumCallers

Min(x, y) == IF x < y THEN x ELSE y

-----------------------------------------------------------------------------
(* types.go and the builders: content blocks, messages, requests, responses *)

ContentBlock(type, text, path, format, data, mediaType) ==
    [Type |-> type, Text |-> text, Path |-> path, Format |-> format,
     Data |-> data, MediaType |-> mediaType]

TextBlock(text) == ContentBlock("text", text, "", "", "", "")
FileBlock(path) == ContentBlock("efs_document", "", path, "", "", "")
ImageBlock(format, base64Data) == ContentBlock("image", "", "", format, base64Data, "")

Message(role, blocks) == [Role |-> role, Content |-> blocks]
UserMessage(blocks) == Message("user", blocks)
AssistantMessage(blocks) == Message("assistant", blocks)

InvokeRequest(action, model, messages, system, maxTokens, temperature, runID) ==
    [Action |-> action, Model |-> model, Messages |-> messages, System |-> system,
     MaxTokens |-> maxTokens, Temperature |-> temperature, ExecutionRunID |-> runID]

ResponseContent(type, text) == [Type |-> type, Text |-> text]

UsageInfo(inputTokens, outputTokens) ==
    [InputTokens |-> inputTokens, OutputTokens |-> outputTokens]

InvokeResponseWithUsage(content, model, usage, stopReason) ==
    [Content |-> content, Model |-> model, Usage |-> usage, StopReason |-> stopReason]

InvokeResponse(content, model, stopReason) ==
    InvokeResponseWithUsage(content, model, UsageInfo(0, 0), stopReason)

ModelHaiku45 == "us.anthropic.claude-haiku-4-5-20251001-v1:0"
ModelSonnet45 == "us.anthropic.claude-sonnet-4-5-20250929-v1:0"
ModelSonnet46 == "us.anthropic.claude-sonnet-4-6"
ModelSonnet4 == "us.anthropic.claude-sonnet-4-20250514-v1:0"

ModelInfo(id, status) == [ModelID |-> id, Status |-> status]

allModels ==
    << ModelInfo(ModelHaiku45, "available"), ModelInfo(ModelSonnet45, "available"),
       ModelInfo(ModelSonnet46, "available"), ModelInfo(ModelSonnet4, "available") >>

\* InvokeResponse.Text: the text of the "text" entries, concatenated in order.
RECURSIVE TextOf_anyType(_)
TextOf_anyType(content) ==
    IF content = <<>> THEN "" ELSE Head(content).Text \o TextOf_anyType(Tail(content))

RECURSIVE TextOf(_)
TextOf(content) ==
    IF content = <<>> THEN ""
    ELSE (IF Head(content).Type = "text" THEN Head(content).Text ELSE "")
         \o TextOf(Tail(content))

Text(r) == TextOf(r.Content)

-----------------------------------------------------------------------------
(* errors: a nil error, a plain error (fmt.Errorf) and *GovernorError *)

NoError == [type |-> "nil"]
PlainError(what) == [type |-> "*errors.errorString", what |-> what]

\* fmt.Errorf with %w: the error wraps its cause, which errors.Is finds again
wrapError_opaque(what, cause) == PlainError(what)

wrapError(what, cause) == [type |-> "*fmt.wrapError", what |-> what, cause |-> cause]

\* A context.Context as an operation meets it: Nil while it is live, else the
\* error its Err() gives once it is cancelled or past its deadline.
Contexts == {Nil, "context canceled", "context deadline exceeded"}
GovernorError(code, msg, allowedModels, budgetRemaining, retryAfterSec) ==
    [type |-> "*GovernorError", Code |-> code, Msg |-> msg,
     AllowedModels |-> allowedModels, BudgetRemaining |-> budgetRemaining,
     RetryAfterSec |-> retryAfterSec]

\* The methods of *GovernorError
GovernorError_Error(e) == "governor error [" \o e.Code \o "]: " \o e.Msg
IsBudgetExceeded(e) == e.Code = "budget_exceeded"
IsModelNotAllowed(e) == e.Code = "model_not_allowed"
IsProviderNotAllowed(e) == e.Code = "provider_not_allowed"
IsModelNotEnabled(e) == e.Code = "model_not_enabled"

IsThrottled_byPrefix(e) == Len(e.Code) >= 7 /\ SubSeq(e.Code, 1, 7) = "bedrock"

IsThrottled(e) == e.Code = "bedrock_throttled"

\* IsGovernorError: the type assertion err.(*GovernorError)
IsGovernorError_anyError(err) == err # NoError

IsGovernorError(err) == err.type = "*GovernorError"

-----------------------------------------------------------------------------
(* backend_mock.go: MockBackend *)

\* The first text block of a message's content from block j on, empty or not.
firstText_anyText(content, j) ==
    LET texts == { k \in j..Len(content) : content[k].Type = "text" }
    IN  IF texts = {} THEN ""
        ELSE content[CHOOSE k \in texts : \A m \in texts : k <= m].Text

\* The first non-empty text block of a message's content, from block j on.
RECURSIVE firstText(_, _)
firstText(content, j) ==
    IF j > Len(content) THEN ""
    ELSE IF content[j].Type = "text" /\ content[j].Text # "" THEN content[j].Text
    ELSE firstText(content, j + 1)

\* The loop of Invoke over req.Messages from index i down to the first one:
\* it stops at the first message it meets whose role is user.
RECURSIVE promptText(_, _)
promptText(messages, i) ==
    IF i < 1 THEN ""
    ELSE IF messages[i].Role = "user" THEN firstText(messages[i].Content, 1)
    ELSE promptText(messages, i - 1)

\* The default response of Invoke when no response is registered.
defaultEcho(req) ==
    InvokeResponse(
        << ResponseContent("text", "[mock] " \o promptText(req.Messages, Len(req.Messages))) >>,
        req.Model, "end_turn")

\* What Invoke returns when the queue is rs.
mockResponse(rs, req) == IF Len(rs) > 0 THEN rs[1] ELSE defaultEcho(req)

\* What Invoke leaves in the queue: the first entry goes only when another follows.
mockAdvance_consumeLast(rs) == IF Len(rs) > 0 THEN Tail(rs) ELSE rs

mockAdvance(rs) == IF Len(rs) > 1 THEN Tail(rs) ELSE rs

\* b.callLog = append(b.callLog, req)
appendLog_onlyFirst(log, req) == IF log = <<>> THEN << req >> ELSE log

appendLog(log, req) == Append(log, req)

\* a budget that the calls made so far would use up
mockBudget_metered ==
    [BudgetPeriod |-> "mock", PeriodBudgetUsd |-> 100, PeriodUsedUsd |-> Len(callLog),
     PeriodRemainingUsd |-> 100 - Len(callLog), ExecutionBudgetUsd |-> 10,
     ExecutionUsedUsd |-> 0, ExecutionRemainingUsd |-> 10]

mockBudget ==
    [BudgetPeriod |-> "mock", PeriodBudgetUsd |-> 100, PeriodUsedUsd |-> 0,
     PeriodRemainingUsd |-> 100, ExecutionBudgetUsd |-> 10, ExecutionUsedUsd |-> 0,
     ExecutionRemainingUsd |-> 10]

\* The canned responses and the requests of the mock's own specification.
Canned(text) == InvokeResponse(<< ResponseContent("text", text) >>, "test-model", "")

Resps == { Canned("first"), Canned("second"), Canned("third") }

RespSeqs == UNION { [1..n -> Resps] : n \in 0..MaxQueue }

Requests ==
    { InvokeRequest("", ModelHaiku45, << UserMessage(<< TextBlock("a") >>) >>, "", 0, 0, ""),
      InvokeRequest("list-models", ModelSonnet46,
                    << UserMessage(<< TextBlock("b") >>),
                       AssistantMessage(<< TextBlock("c") >>) >>, "sys", 512, 1, "run-1"),
      InvokeRequest("", ModelHaiku45, <<>>, "", 0, 0, "run-2") }

RunIDs == { "", "run-1", "run-2" }

\* The handlers below leave thr, the callers' positions, and environ, which
\* none of them reads or sets, to the specification that drives them.

SetResponse(resp) ==
    /\ responses' = << resp >>
    /\ hist' = [installed |-> << resp >>, answered |-> 0]
    /\ last' = [op |-> "SetResponse", resp |-> resp]
    /\ UNCHANGED <<g, lambdaVars, anthropicVars, callLog, mu>>

\* SetResponses, were the new sequence put after the entries still queued
SetResponses_append(rs) ==
    /\ responses' = responses \o rs
    /\ hist' = [installed |-> rs, answered |-> 0]
    /\ last' = [op |-> "SetResponses", rs |-> rs]
    /\ UNCHANGED <<g, lambdaVars, anthropicVars, callLog, mu>>

SetResponses(rs) ==
    /\ responses' = rs
    /\ hist' = [installed |-> rs, answered |-> 0]
    /\ last' = [op |-> "SetResponses", rs |-> rs]
    /\ UNCHANGED <<g, lambdaVars, anthropicVars, callLog, mu>>

Calls ==
    /\ last' = [op |-> "Calls", out |-> callLog]
    /\ UNCHANGED <<g, lambdaVars, anthropicVars, responses, callLog, mu, hist>>

MockBackend_Invoke(req) ==
    /\ callLog' = appendLog(callLog, req)
    /\ responses' = mockAdvance(responses)
    /\ hist' = [hist EXCEPT !.answered = @ + 1]
    /\ last' = [op |-> "Invoke", req |-> req, resp |-> mockResponse(responses, req),
                err |-> NoError]
    /\ UNCHANGED <<g, lambdaVars, anthropicVars, mu>>

MockBackend_CheckBudget(runID) ==
    /\ last' = [op |-> "CheckBudget", runID |-> runID, resp |-> mockBudget, err |-> NoError]
    /\ UNCHANGED <<g, lambdaVars, anthropicVars, responses, callLog, mu, hist>>

MockBackend_ListModels ==
    /\ last' = [op |-> "ListModels", resp |-> [Models |-> allModels], err |-> NoError]
    /\ UNCHANGED <<g, lambdaVars, anthropicVars, responses, callLog, mu, hist>>

\* The environment with none of the three variables set (os.Getenv gives "")
NoEnvironment ==
    [LLM_GOVERNOR_FUNCTION |-> "", EXECUTION_RUN_ID |-> "", ANTHROPIC_API_KEY |-> ""]

\* NewMockBackend: the zero value, no caller active
ZeroBackends ==
    /\ g = NoGovernor
    /\ b = [functionName |-> "", lambdaClient |-> Nil]
    /\ responses = <<>>
    /\ callLog = <<>>
    /\ mu = Unlocked
    /\ channel = <<>>
    /\ a = [apiKey |-> ""]
    /\ http = <<>>
    /\ hist = [installed |-> <<>>, answered |-> 0]
    /\ environ = NoEnvironment

InitMock ==
    /\ ZeroBackends
    /\ thr = [c \in Callers |-> [pc |-> "idle"]]
    /\ last = [op |-> "NewMockBackend"]

NextMock ==
    \/ \E resp \in Resps : SetResponse(resp) /\ UNCHANGED <<thr, environ>>
    \/ \E rs \in RespSeqs : SetResponses(rs) /\ UNCHANGED <<thr, environ>>
    \/ \E req \in Requests :
          Len(callLog) < MaxCalls /\ MockBackend_Invoke(req) /\ UNCHANGED <<thr, environ>>
    \/ \E runID \in RunIDs : MockBackend_CheckBudget(runID) /\ UNCHANGED <<thr, environ>>
    \/ MockBackend_ListModels /\ UNCHANGED <<thr, environ>>
    \/ Calls /\ UNCHANGED <<thr, environ>>

\* The mock backend used on its own, one call at a time.
SpecMock == InitMock /\ [][NextMock]_vars

-----------------------------------------------------------------------------
(* The default echo over every request of up to MaxMsgs messages of up to   *)
(* MaxBlocks blocks: one caller holds a request and passes it to a fresh    *)
(* mock.                                                                   *)

EchoBlocks == { TextBlock("a"), TextBlock("b"), TextBlock(""), ImageBlock("png", "QQ==") }
EchoContents == UNION { [1..n -> EchoBlocks] : n \in 0..MaxBlocks }
\* The loop never reads what an assistant message holds: one content stands for all.
EchoMessages ==
    { UserMessage(c) : c \in EchoContents } \cup { AssistantMessage(<< TextBlock("c") >>) }

InitEcho ==
    /\ ZeroBackends
    /\ \E model \in {ModelHaiku45, "other"}, n \in 0..MaxMsgs :
          \E ms \in [1..n -> EchoMessages] :
             thr = [c \in Callers |->
                      IF c = 1
                      THEN [pc |-> "idle", req |-> InvokeRequest("", model, ms, "", 0, 0, "")]
                      ELSE [pc |-> "done"]]
    /\ last = [op |-> "NewMockBackend"]

EchoInvoke ==
    /\ thr[1].pc = "idle"
    /\ MockBackend_Invoke(thr[1].req)
    /\ thr' = [thr EXCEPT ![1].pc = "done"]
    /\ UNCHANGED environ

NextEcho == EchoInvoke

SpecEcho == InitEcho /\ [][NextEcho]_vars

-----------------------------------------------------------------------------
(* Claims about the mock backend *)

\* C5: after SetResponse / SetResponses installed r1..rn (n >= 1) and with no
\* further Set call, the k-th Invoke returns r_k for k <= n and r_n for k > n,
\* whatever the request, and the final entry stays in the queue.
C5_QueueThenLastRepeats ==
    hist.installed # <<>> =>
        LET n == Len(hist.installed)
            k == hist.answered
        IN  /\ Len(responses) >= 1
            /\ responses[Len(responses)] = hist.installed[n]
            /\ (last.op = "Invoke" /\ k >= 1) =>
                   /\ last.err = NoError
                   /\ last.resp = hist.installed[Min(k, n)]

C5_Witness ==
    /\ last.op = "Invoke"
    /\ Len(hist.installed) = 2
    /\ hist.installed[1] # hist.installed[2]
    /\ hist.answered = 3
    /\ last.resp = hist.installed[2]

\* The prompt part of the echo, stated over the request: the first non-empty
\* text block of the last message whose role is user, "" when there is none.
EchoPrompt(req) ==
    LET users == { i \in 1..Len(req.Messages) : req.Messages[i].Role = "user" }
    IN  IF users = {} THEN ""
        ELSE LET i == CHOOSE x \in users : \A y \in users : y <= x
                 content == req.Messages[i].Content
                 texts == { j \in 1..Len(content) :
                              content[j].Type = "text" /\ content[j].Text # "" }
             IN  IF texts = {} THEN ""
                 ELSE content[CHOOSE x \in texts : \A y \in texts : x <= y].Text

\* C6: with no registered response Invoke returns the single text block
\* "[mock] " followed by the first non-empty text block of the most recent user
\* message (empty when there is none), stopReason "end_turn" and the request's model.
C6_DefaultEcho ==
    (last.op = "Invoke" /\ hist.installed = <<>>) =>
        /\ last.err = NoError
        /\ last.resp.Content = << [Type |-> "text", Text |-> "[mock] " \o EchoPrompt(last.req)] >>
        /\ last.resp.StopReason = "end_turn"
        /\ last.resp.Model = last.req.Model

\* a user message with a non-empty text after an empty one, followed by an
\* assistant message that carries text of its own
C6_Witness ==
    /\ last.op = "Invoke"
    /\ Len(last.req.Messages) = 2
    /\ last.req.Messages[1] = UserMessage(<< TextBlock(""), TextBlock("b") >>)
    /\ last.req.Messages[2] = AssistantMessage(<< TextBlock("c") >>)
    /\ Text(last.resp) = "[mock] b"

\* C7: the call log is append-only and complete: a step of Invoke appends its
\* request at the end of the log, every other step leaves the log as it is, and
\* Calls returns the log.
C7_CallLogAppendOnly ==
    [][ /\ (last'.op = "Invoke" => callLog' = Append(callLog, last'.req))
        /\ (last'.op # "Invoke" => callLog' = callLog)
        /\ (last'.op = "Calls" => last'.out = callLog') ]_vars

C7_Witness ==
    /\ last.op = "Calls"
    /\ Len(last.out) = 3
    /\ last.out[1] # last.out[2]
    /\ last.out[2] # last.out[3]
    /\ hist.installed # <<>>
    /\ hist.answered = 1

-----------------------------------------------------------------------------
(* MockBackend.Invoke by concurrent callers, statement by statement.  Caller *)
(* c passes its own request; the queue was installed before the calls.      *)

CallerRequest(c) ==
    InvokeRequest("invoke", ModelHaiku45, << UserMessage(<< TextBlock(ToString(c)) >>) >>,
                  "", 0, 0, "run-1")

QueueOf(n) == SubSeq(<< Canned("first"), Canned("second"), Canned("third"), Canned("fourth") >>, 1, n)

\* sync.Mutex: Lock returns only when no caller holds the mutex
lockFree_never(m) == TRUE

lockFree(m) == m = Unlocked

\* the caller enters Invoke
Enter(c) ==
    /\ thr[c].pc = "idle"
    /\ thr' = [thr EXCEPT ![c].pc = "lock"]
    /\ UNCHANGED <<environ, g, lambdaVars, anthropicVars, responses, callLog, mu, last, hist>>

\* b.mu.Lock()
Lock(c) ==
    /\ thr[c].pc = "lock"
    /\ lockFree(mu)
    /\ mu' = c
    /\ thr' = [thr EXCEPT ![c].pc = "append"]
    /\ UNCHANGED <<environ, g, lambdaVars, anthropicVars, responses, callLog, last, hist>>

\* b.callLog = append(b.callLog, req)
AppendCall(c) ==
    /\ thr[c].pc = "append"
    /\ callLog' = appendLog(callLog, thr[c].req)
    /\ thr' = [thr EXCEPT ![c].pc = "read"]
    /\ UNCHANGED <<environ, g, lambdaVars, anthropicVars, responses, mu, last, hist>>

\* the tests on len(b.responses) and resp := b.responses[0], or the default echo
ReadResponse(c) ==
    /\ thr[c].pc = "read"
    /\ thr' = [thr EXCEPT ![c].resp = mockResponse(responses, thr[c].req),
                          ![c].pc = IF Len(responses) > 1 THEN "advance" ELSE "unlock"]
    /\ UNCHANGED <<environ, g, lambdaVars, anthropicVars, responses, callLog, mu, last, hist>>

\* b.responses = b.responses[1:]
AdvanceQueue(c) ==
    /\ thr[c].pc = "advance"
    /\ responses' = SubSeq(responses, 2, Len(responses))
    /\ thr' = [thr EXCEPT ![c].pc = "unlock"]
    /\ UNCHANGED <<environ, g, lambdaVars, anthropicVars, callLog, mu, last, hist>>

\* the deferred b.mu.Unlock() and the return
Unlock(c) ==
    /\ thr[c].pc = "unlock"
    /\ mu' = IF mu = c THEN Unlocked ELSE mu
    /\ thr' = [thr EXCEPT ![c].pc = "done"]
    /\ last' = [op |-> "Invoke", req |-> thr[c].req, resp |-> thr[c].resp, err |-> NoError]
    /\ UNCHANGED <<environ, g, lambdaVars, anthropicVars, responses, callLog, hist>>

InitMockConc ==
    /\ g = NoGovernor
    /\ b = [functionName |-> "", lambdaClient |-> Nil]
    /\ \E n \in 1..MaxQueue :
          /\ responses = QueueOf(n)
          /\ hist = [installed |-> QueueOf(n), answered |-> 0]
    /\ callLog = <<>>
    /\ mu = Unlocked
    /\ channel = <<>>
    /\ a = [apiKey |-> ""]
    /\ http = <<>>
    /\ thr = [c \in Callers |-> [pc |-> "idle", req |-> CallerRequest(c), resp |-> NoResponse]]
    /\ last = [op |-> "SetResponses", rs |-> responses]
    /\ environ = NoEnvironment

NextMockConc ==
    \E c \in Callers :
        \/ Enter(c)
        \/ Lock(c)
        \/ AppendCall(c)
        \/ ReadResponse(c)
        \/ AdvanceQueue(c)
        \/ Unlock(c)

SpecMockConc == InitMockConc /\ [][NextMockConc]_vars

AllDone == \A c \in Callers : thr[c].pc = "done"

\* C8: whatever the interleaving of NumCallers concurrent Invoke calls on a
\* mock holding r1..rn, the outcome is that of the calls made one after the
\* other in the order of the log: the log holds every request exactly once, the
\* k-th logged caller received r_min(k,n), so each r_i with i < n went to exactly
\* one caller and every other caller received r_n.
C8_ConcurrentInvokeSerial ==
    AllDone =>
        LET q == hist.installed
            n == Len(q)
        IN  /\ Len(callLog) = NumCallers
            /\ \A c \in Callers :
                  Cardinality({ k \in 1..Len(callLog) : callLog[k] = thr[c].req }) = 1
            /\ \A k \in 1..Len(callLog) : \A c \in Callers :
                  callLog[k] = thr[c].req => thr[c].resp = q[Min(k, n)]
            /\ \A i \in 1..(n - 1) :
                  i <= NumCallers => Cardinality({ c \in Callers : thr[c].resp = q[i] }) = 1
            /\ \A c \in Callers :
                  (\A i \in 1..(n - 1) : thr[c].resp # q[i]) => thr[c].resp = q[n]
            /\ responses = SubSeq(q, Min(NumCallers + 1, n), n)

C8_Witness ==
    /\ AllDone
    /\ Len(hist.installed) = 2
    /\ callLog[1] = thr[3].req
    /\ thr[3].resp = Canned("first")
    /\ thr[1].resp = Canned("second")
    /\ thr[2].resp = Canned("second")

-----------------------------------------------------------------------------
(* encoding/json as the backends use it.  A payload is not JSON at all, or  *)
(* the JSON null, or a JSON array, or a JSON object: a function from keys   *)
(* to values, each value carrying its JSON type t and its content v.        *)

JInvalid == [kind |-> "invalid"]
JNull == [kind |-> "null"]
JArray == [kind |-> "array"]
JObject(fields) == [kind |-> "object", fields |-> fields]

JStr(v) == [t |-> "string", v |-> v]
JNum(v) == [t |-> "number", v |-> v]
JArr(v) == [t |-> "array", v |-> v]
JObj(v) == [t |-> "object", v |-> v]

NoBudget == [nil |-> TRUE]      \* a nil *BudgetInfo

\* The json tags of the structs of types.go with the JSON type each field takes,
\* and the zero value of each struct.
ErrorResponseType ==
    [error |-> "string", message |-> "string", allowedModels |-> "array",
     budgetRemaining |-> "object", retryAfterSeconds |-> "number"]
ErrorResponseZero ==
    [error |-> "", message |-> "", allowedModels |-> <<>>,
     budgetRemaining |-> NoBudget, retryAfterSeconds |-> 0]

InvokeResponseType ==
    [content |-> "array", model |-> "string", usage |-> "object", stopReason |-> "string"]
InvokeResponseZero ==
    [content |-> <<>>, model |-> "", usage |-> [inputTokens |-> 0, outputTokens |-> 0],
     stopReason |-> ""]

CheckBudgetResponseType ==
    [budgetPeriod |-> "string", periodBudgetUsd |-> "number", periodRemainingUsd |-> "number"]
CheckBudgetResponseZero ==
    [budgetPeriod |-> "", periodBudgetUsd |-> 0, periodRemainingUsd |-> 0]

ListModelsResponseType == [models |-> "array"]
ListModelsResponseZero == [models |-> <<>>]

\* json.Unmarshal(payload, &v) for v the zero value of a struct with the fields
\* of type: a syntax error and a non-object leave v alone and fail; null leaves
\* v alone and succeeds; an object sets every field whose key is present with
\* the right type, skips unknown keys and null values, and fails (having set
\* the fields that fit) when a known key has a value of another type.
Unmarshal(payload, type, zero) ==
    IF payload.kind = "invalid" THEN [err |-> TRUE, val |-> zero]
    ELSE IF payload.kind = "null" THEN [err |-> FALSE, val |-> zero]
    ELSE IF payload.kind # "object" THEN [err |-> TRUE, val |-> zero]
    ELSE LET f == payload.fields
             known == DOMAIN f \cap DOMAIN type
             fits(k) == f[k].t = type[k]
         IN  [err |-> \E k \in known : f[k].t # "null" /\ ~fits(k),
              val |-> [k \in DOMAIN type |-> IF k \in known /\ fits(k) THEN f[k].v ELSE zero[k]]]

\* json.Marshal of an *InvokeRequest: the omitempty fields are left out when zero.
MarshalRequest(req) ==
    JObject(
        [action |-> JStr(req.Action), model |-> JStr(req.Model),
         messages |-> JArr(req.Messages), executionRunId |-> JStr(req.ExecutionRunID)]
        @@ (IF req.System # "" THEN [system |-> JStr(req.System)] ELSE << >>)
        @@ (IF req.MaxTokens # 0 THEN [maxTokens |-> JNum(req.MaxTokens)] ELSE << >>)
        @@ (IF req.Temperature # 0 THEN [temperature |-> JNum(req.Temperature)] ELSE << >>))

-----------------------------------------------------------------------------
(* backend_lambda.go: LambdaBackend *)

\* What the invocation channel may answer to one lambdaClient.Invoke: an error,
\* or an output with or without the FunctionError flag and with a payload.
TextContent == << [type |-> "text", text |-> "hi"] >>
BudgetLeft == [budgetPeriod |-> "daily", periodRemainingUsd |-> 0]

ReplyPayloads ==
    { JObject([content |-> JArr(TextContent), model |-> JStr("m"),
               usage |-> JObj([inputTokens |-> 7, outputTokens |-> 3]),
               stopReason |-> JStr("end_turn")]),
      JObject([error |-> JStr("budget_exceeded"), message |-> JStr("over"),
               budgetRemaining |-> JObj(BudgetLeft)]),
      JObject([error |-> JStr("model_not_allowed"), message |-> JStr("no"),
               allowedModels |-> JArr(<< ModelHaiku45 >>)]),
      JObject([error |-> JStr("bedrock_throttled"), message |-> JStr(""),
               retryAfterSeconds |-> JNum(30)]),
      JObject([error |-> JStr("other_code"), content |-> JArr(TextContent)]),
      JObject([error |-> JStr(""), content |-> JArr(TextContent)]),
      JObject([error |-> JNum(5), model |-> JStr("m")]),
      JObject([error |-> JStr("budget_exceeded"), message |-> JNum(5)]),
      JObject([content |-> JStr("oops")]),
      JObject([budgetPeriod |-> JStr("daily"), periodBudgetUsd |-> JNum(100),
               periodRemainingUsd |-> JNum(40)]),
      JObject([models |-> JArr(<< [modelId |-> ModelHaiku45, status |-> "available"] >>)]),
      JInvalid, JNull, JArray }

InvokeError == [err |-> TRUE, cause |-> "connection refused"]
NoReply == [none |-> TRUE]      \* the channel was not called
Output(functionError, payload) ==
    [err |-> FALSE, FunctionError |-> functionError, Payload |-> payload]

\* lambdaClient.Invoke under a context that is done: it fails with the context's error
ctxFault(ctx) == [err |-> TRUE, cause |-> ctx]

Replies ==
    { InvokeError }
    \cup { Output(Nil, p) : p \in ReplyPayloads }
    \cup { Output("Unhandled", p) :
             p \in { JObject([errorMessage |-> JStr("boom")]),
                     JObject([error |-> JStr("budget_exceeded"), message |-> JStr("over")]) } }

\* The answers of the channel to a call made under ctx
channelReplies(ctx) == IF ctx = Nil THEN Replies ELSE { ctxFault(ctx) }

\* The decoding of a reply payload in call: the error envelope first, then the
\* expected result type.
decode_resultFirst(payload, type, zero) ==
    LET result == Unmarshal(payload, type, zero)
        errResp == Unmarshal(payload, ErrorResponseType, ErrorResponseZero)
    IN  IF ~result.err
        THEN [err |-> NoError, val |-> result.val]
        ELSE IF ~errResp.err /\ errResp.val.error # ""
        THEN [err |-> GovernorError(errResp.val.error, errResp.val.message,
                                    errResp.val.allowedModels, errResp.val.budgetRemaining,
                                    errResp.val.retryAfterSeconds),
              val |-> NoResponse]
        ELSE [err |-> PlainError("failed to unmarshal response"), val |-> NoResponse]

decode(payload, type, zero) ==
    LET errResp == Unmarshal(payload, ErrorResponseType, ErrorResponseZero)
        result == Unmarshal(payload, type, zero)
    IN  IF ~errResp.err /\ errResp.val.error # ""
        THEN [err |-> GovernorError(errResp.val.error, errResp.val.message,
                                    errResp.val.allowedModels, errResp.val.budgetRemaining,
                                    errResp.val.retryAfterSeconds),
              val |-> NoResponse]
        ELSE IF result.err
        THEN [err |-> PlainError("failed to unmarshal response"), val |-> NoResponse]
        ELSE [err |-> NoError, val |-> result.val]

\* One call on a transport (the invocation channel, the HTTPS client): the
\* request is handed over once.
send_twice(transport, request) == transport \o << request, request >>

send(transport, request) == Append(transport, request)

\* ensureClient of a backend whose client field is client: the client it leaves
\* in the field, Nil when config.LoadDefaultConfig fails (cfgOk false).
ensureClient(client, cfgOk) ==
    IF client # Nil THEN client
    ELSE IF cfgOk THEN "default-client" ELSE Nil

\* call: the payload it puts on the channel (none when no client could be made)
\* and what it returns, for one outcome of LoadDefaultConfig and of the channel.
callSends(cfgOk) == ensureClient(b.lambdaClient, cfgOk) # Nil

callResult_decodeFirst(type, zero, cfgOk, reply) ==
    IF ~callSends(cfgOk) THEN [err |-> PlainError("failed to load AWS config"), val |-> NoResponse]
    ELSE IF reply.err
    THEN [err |-> wrapError("failed to invoke governor", reply.cause), val |-> NoResponse]
    ELSE IF IsGovernorError(decode(reply.Payload, type, zero).err)
    THEN decode(reply.Payload, type, zero)
    ELSE IF reply.FunctionError # Nil
    THEN [err |-> PlainError("governor function error"), val |-> NoResponse]
    ELSE decode(reply.Payload, type, zero)

callResult(type, zero, cfgOk, reply) ==
    IF ~callSends(cfgOk) THEN [err |-> PlainError("failed to load AWS config"), val |-> NoResponse]
    ELSE IF reply.err
    THEN [err |-> wrapError("failed to invoke governor", reply.cause), val |-> NoResponse]
    ELSE IF reply.FunctionError # Nil
    THEN [err |-> PlainError("governor function error"), val |-> NoResponse]
    ELSE decode(reply.Payload, type, zero)

\* The effect of call on the backend and on the channel.
call(payload, cfgOk) ==
    /\ b' = [b EXCEPT !.lambdaClient = ensureClient(b.lambdaClient, cfgOk)]
    /\ channel' = IF callSends(cfgOk)
                  THEN send(channel, [FunctionName |-> b.functionName, Payload |-> payload])
                  ELSE channel

\* The structs the decoded values become.
toInvokeResponse(val) ==
    IF val = NoResponse THEN NoResponse
    ELSE InvokeResponseWithUsage(
             [i \in 1..Len(val.content) |->
                 ResponseContent(val.content[i].type, val.content[i].text)],
             val.model, UsageInfo(val.usage.inputTokens, val.usage.outputTokens),
             val.stopReason)

toCheckBudgetResponse(val) ==
    IF val = NoResponse THEN NoResponse
    ELSE [BudgetPeriod |-> val.budgetPeriod, PeriodBudgetUsd |-> val.periodBudgetUsd,
          PeriodRemainingUsd |-> val.periodRemainingUsd]

toListModelsResponse(val) ==
    IF val = NoResponse THEN NoResponse
    ELSE [Models |-> [i \in 1..Len(val.models) |->
                         ModelInfo(val.models[i].modelId, val.models[i].status)]]

CheckBudgetPayload(runID) ==
    JObject([action |-> JStr("check-budget"), executionRunId |-> JStr(runID)])

ListModelsPayload == JObject([action |-> JStr("list-models")])

-----------------------------------------------------------------------------
(* backend_anthropic.go: AnthropicBackend and the content block conversion *)

HasPrefix(str, prefix) ==
    Len(str) >= Len(prefix) /\ SubSeq(str, 1, Len(prefix)) = prefix

TrimPrefix(str, prefix) ==
    IF HasPrefix(str, prefix) THEN SubSeq(str, Len(prefix) + 1, Len(str)) ELSE str

modelMap ==
    (ModelHaiku45 :> "claude-haiku-4-5-20251001")
    @@ (ModelSonnet45 :> "claude-sonnet-4-5-20250929")
    @@ (ModelSonnet46 :> "claude-sonnet-4-6")
    @@ (ModelSonnet4 :> "claude-sonnet-4-20250514")

MapModel_prefixFirst(bedrockID) ==
    IF HasPrefix(bedrockID, "us.anthropic.") THEN TrimPrefix(bedrockID, "us.anthropic.")
    ELSE IF bedrockID \in DOMAIN modelMap THEN modelMap[bedrockID]
    ELSE bedrockID

MapModel(bedrockID) ==
    IF bedrockID \in DOMAIN modelMap THEN modelMap[bedrockID]
    ELSE IF HasPrefix(bedrockID, "us.anthropic.") THEN TrimPrefix(bedrockID, "us.anthropic.")
    ELSE bedrockID

docMediaTypes ==
    [pdf |-> "application/pdf", csv |-> "text/csv", txt |-> "text/plain",
     md |-> "text/markdown", html |-> "text/html"]

docMediaType(ext) ==
    IF ext \in DOMAIN docMediaTypes THEN docMediaTypes[ext] ELSE "application/octet-stream"

\* filepath.Ext: the suffix from the last dot of the last element of the path
RECURSIVE ExtFrom(_, _)
ExtFrom(path, i) ==
    IF i < 1 \/ SubSeq(path, i, i) = "/" THEN ""
    ELSE IF SubSeq(path, i, i) = "." THEN SubSeq(path, i, Len(path))
    ELSE ExtFrom(path, i - 1)

Ext(path) == ExtFrom(path, Len(path))

\* base64.StdEncoding.EncodeToString over a sequence of bytes
encodeStd == "ABCDEFGHIJKLMNOPQRSTUVWXYZabcdefghijklmnopqrstuvwxyz0123456789+/"
Digit(i) == SubSeq(encodeStd, i + 1, i + 1)

RECURSIVE EncodeToString(_)
EncodeToString(data) ==
    IF Len(data) = 0 THEN ""
    ELSE IF Len(data) = 1
    THEN LET v == data[1] * 65536
         IN  Digit(v \div 262144) \o Digit((v \div 4096) % 64) \o "=="
    ELSE IF Len(data) = 2
    THEN LET v == data[1] * 65536 + data[2] * 256
         IN  Digit(v \div 262144) \o Digit((v \div 4096) % 64)
             \o Digit((v \div 64) % 64) \o "="
    ELSE LET v == data[1] * 65536 + data[2] * 256 + data[3]
         IN  Digit(v \div 262144) \o Digit((v \div 4096) % 64)
             \o Digit((v \div 64) % 64) \o Digit(v % 64)
             \o EncodeToString(SubSeq(data, 4, Len(data)))

\* The wire blocks of the Messages API
WireText(text) == [type |-> "text", text |-> text]
WireSource(type, mediaType, data) ==
    [type |-> type,
     source |-> [type |-> "base64", media_type |-> mediaType, data |-> data]]

\* os.ReadFile on a file system fs: a function from paths to
\* [ok |-> FALSE] or [ok |-> TRUE, data |-> bytes]; a path outside it is not found.
ReadFile(fs, path) == IF path \in DOMAIN fs THEN fs[path] ELSE [ok |-> FALSE]

convertEFSDocument_extWithDot(block, fs) ==
    IF block.Path = "" THEN WireText("[File not available locally: empty path]")
    ELSE LET read == ReadFile(fs, block.Path)
         IN  IF ~read.ok
             THEN WireText("[File not available locally: " \o block.Path \o "]")
             ELSE WireSource("document", docMediaType(Ext(block.Path)),
                             EncodeToString(read.data))

convertEFSDocument(block, fs) ==
    IF block.Path = "" THEN WireText("[File not available locally: empty path]")
    ELSE LET read == ReadFile(fs, block.Path)
         IN  IF ~read.ok
             THEN WireText("[File not available locally: " \o block.Path \o "]")
             ELSE WireSource("document",
                             docMediaType(TrimPrefix(Ext(block.Path), ".")),
                             EncodeToString(read.data))

\* The paths convertEFSDocument gives to os.ReadFile
efsReads(block) == IF block.Path = "" THEN <<>> ELSE << block.Path >>

\* case "image"
convertImage_formatOnly(block) ==
    WireSource("image", "image/" \o block.Format, block.Data)

convertImage(block) ==
    WireSource("image",
               IF block.MediaType = "" /\ block.Format # ""
               THEN "image/" \o block.Format ELSE block.MediaType,
               block.Data)

\* default: a block of any other type
convertUnsupported_forwarded(block) ==
    IF block.Type = "" THEN WireText(block.Text)
    ELSE WireText("[Unsupported content block: " \o block.Type \o "]")

convertUnsupported(block) == WireText("[Unsupported content block: " \o block.Type \o "]")

convertContentBlock(block, fs) ==
    CASE block.Type = "text" -> WireText(block.Text)
      [] block.Type = "image" -> convertImage(block)
      [] block.Type = "document" ->
            WireSource("document",
                       IF block.MediaType = "" THEN docMediaType(block.Format)
                       ELSE block.MediaType,
                       block.Data)
      [] block.Type = "efs_document" -> convertEFSDocument(block, fs)
      [] OTHER -> convertUnsupported(block)

\* The loops of convertMessages
convertMessages_dropEmpty(messages, fs) ==
    LET kept == SelectSeq(messages, LAMBDA msg : msg.Content # <<>>)
    IN  [i \in 1..Len(kept) |->
            [role |-> kept[i].Role,
             content |-> [j \in 1..Len(kept[i].Content) |->
                             convertContentBlock(kept[i].Content[j], fs)]]]

convertMessages(messages, fs) ==
    [i \in 1..Len(messages) |->
        [role |-> messages[i].Role,
         content |-> [j \in 1..Len(messages[i].Content) |->
                         convertContentBlock(messages[i].Content[j], fs)]]]

\* The request body Invoke posts
anthropicRequest(req, fs) ==
    [model |-> MapModel(req.Model),
     max_tokens |-> IF req.MaxTokens = 0 THEN 1024 ELSE req.MaxTokens,
     system |-> req.System, temperature |-> req.Temperature,
     messages |-> convertMessages(req.Messages, fs)]

anthropicResponseType ==
    [content |-> "array", model |-> "string", stop_reason |-> "string", usage |-> "object"]
anthropicResponseZero ==
    [content |-> <<>>, model |-> "", stop_reason |-> "",
     usage |-> [input_tokens |-> 0, output_tokens |-> 0]]

anthropicErrorResponseType == [error |-> "object"]
anthropicErrorResponseZero == [error |-> [type |-> "", message |-> ""]]

StatusOK == 200

\* What the HTTPS transport may answer: an error of Do, a body that cannot be
\* read, or a status with a body.
\* cause: why the read of the body fails, when it does.
HTTPError == [err |-> TRUE, cause |-> "connection refused"]
HTTPResponse(status, readOK, body) ==
    [err |-> FALSE, StatusCode |-> status, readOK |-> readOK, Body |-> body,
     cause |-> "unexpected EOF"]

APIContent ==
    << [type |-> "text", text |-> "Hello "], [type |-> "tool_use", text |-> ""],
       [type |-> "text", text |-> "world"] >>

APISuccess ==
    JObject([content |-> JArr(APIContent), model |-> JStr("claude-haiku-4-5-20251001"),
             stop_reason |-> JStr("end_turn"),
             usage |-> JObj([input_tokens |-> 11, output_tokens |-> 5])])

APIError ==
    JObject([type |-> JStr("error"),
             error |-> JObj([type |-> "rate_limit_error", message |-> "slow down"])])

HTTPReplies ==
    { HTTPError,
      HTTPResponse(StatusOK, FALSE, JInvalid),
      HTTPResponse(StatusOK, TRUE, APISuccess),
      HTTPResponse(StatusOK, TRUE, JInvalid),
      HTTPResponse(429, TRUE, APIError),
      HTTPResponse(500, TRUE, JInvalid),
      HTTPResponse(500, TRUE, APISuccess) }

\* The answers of the transport to a request made under ctx: under a context that
\* is done, Do fails with the context's error, or the read of the body does.
httpReplies(ctx) ==
    IF ctx = Nil THEN HTTPReplies
    ELSE { [err |-> TRUE, cause |-> ctx],
           [HTTPResponse(StatusOK, FALSE, JInvalid) EXCEPT !.cause = ctx] }

\* every block of the reply, whatever its type
textBlocks_all(content) ==
    [k \in 1..Len(content) |-> ResponseContent("text", content[k].text)]

\* The text blocks of the reply, in order
RECURSIVE textBlocks(_)
textBlocks(content) ==
    IF content = <<>> THEN <<>>
    ELSE (IF Head(content).type = "text"
          THEN << ResponseContent("text", Head(content).text) >> ELSE <<>>)
         \o textBlocks(Tail(content))

\* What Invoke returns for one answer of the transport.
anthropicResult_successFirst(reply) ==
    IF reply.err
    THEN [err |-> wrapError("Anthropic API request failed", reply.cause), resp |-> NoResponse]
    ELSE IF ~reply.readOK
    THEN [err |-> wrapError("failed to read response body", reply.cause), resp |-> NoResponse]
    ELSE LET apiResp == Unmarshal(reply.Body, anthropicResponseType, anthropicResponseZero)
         IN  IF ~apiResp.err /\ apiResp.val.content # << >>
             THEN [err |-> NoError,
                   resp |-> InvokeResponseWithUsage(
                               textBlocks(apiResp.val.content), apiResp.val.model,
                               UsageInfo(apiResp.val.usage.input_tokens,
                                         apiResp.val.usage.output_tokens),
                               apiResp.val.stop_reason)]
             ELSE IF reply.StatusCode # StatusOK
             THEN [err |-> [type |-> "*errors.errorString",
                            what |-> "Anthropic API returned status",
                            status |-> reply.StatusCode, body |-> reply.Body],
                   resp |-> NoResponse]
             ELSE [err |-> PlainError("failed to unmarshal Anthropic response"),
                   resp |-> NoResponse]

anthropicResult(reply) ==
    IF reply.err
    THEN [err |-> wrapError("Anthropic API request failed", reply.cause), resp |-> NoResponse]
    ELSE IF ~reply.readOK
    THEN [err |-> wrapError("failed to read response body", reply.cause), resp |-> NoResponse]
    ELSE IF reply.StatusCode # StatusOK
    THEN LET errResp == Unmarshal(reply.Body, anthropicErrorResponseType,
                                  anthropicErrorResponseZero)
         IN  IF ~errResp.err /\ errResp.val.error.message # ""
             THEN [err |-> [type |-> "*errors.errorString", what |-> "Anthropic API error",
                            errType |-> errResp.val.error.type,
                            message |-> errResp.val.error.message],
                   resp |-> NoResponse]
             ELSE [err |-> [type |-> "*errors.errorString",
                            what |-> "Anthropic API returned status",
                            status |-> reply.StatusCode, body |-> reply.Body],
                   resp |-> NoResponse]
    ELSE LET apiResp == Unmarshal(reply.Body, anthropicResponseType, anthropicResponseZero)
         IN  IF apiResp.err
             THEN [err |-> PlainError("failed to unmarshal Anthropic response"),
                   resp |-> NoResponse]
             ELSE [err |-> NoError,
                   resp |-> InvokeResponseWithUsage(
                               textBlocks(apiResp.val.content), apiResp.val.model,
                               UsageInfo(apiResp.val.usage.input_tokens,
                                         apiResp.val.usage.output_tokens),
                               apiResp.val.stop_reason)]

anthropicBudget ==
    [BudgetPeriod |-> "none", PeriodBudgetUsd |-> 0, PeriodUsedUsd |-> 0,
     PeriodRemainingUsd |-> "+Inf", ExecutionBudgetUsd |-> 0, ExecutionUsedUsd |-> 0,
     ExecutionRemainingUsd |-> "+Inf"]

-----------------------------------------------------------------------------
(* governor.go: the Governor facade *)

MockType == "*MockBackend"
LambdaType == "*LambdaBackend"
AnthropicType == "*AnthropicBackend"

\* An option of NewGovernor: not passed, or passed with a value.
NotPassed == [given |-> FALSE, v |-> ""]
With(v) == [given |-> TRUE, v |-> v]

\* The switch of NewGovernor when no backend was passed.
selectBackend_keyFirst(functionName, apiKey) ==
    IF apiKey # "" THEN AnthropicType
    ELSE IF functionName # "" THEN LambdaType
    ELSE MockType

selectBackend(functionName, apiKey) ==
    IF functionName # "" THEN LambdaType
    ELSE IF apiKey # "" THEN AnthropicType
    ELSE MockType

NewLambdaBackend(functionName, lambdaClient) ==
    [functionName |-> functionName, lambdaClient |-> lambdaClient]

\* NewGovernor in the environment env with the options opts.  A backend passed
\* with WithBackend was built by the caller: NewMockBackend(),
\* NewLambdaBackend("own-func", nil) or NewAnthropicBackend().
NewGovernor(env, opts) ==
    LET functionName == IF opts.functionName.given THEN opts.functionName.v
                        ELSE env.LLM_GOVERNOR_FUNCTION
        executionRunID == IF opts.executionRunID.given THEN opts.executionRunID.v
                          ELSE env.EXECUTION_RUN_ID
        lambdaClient == IF opts.lambdaClient.given THEN opts.lambdaClient.v ELSE Nil
        backend == IF opts.backend.given THEN opts.backend.v
                   ELSE selectBackend(functionName, env.ANTHROPIC_API_KEY)
    IN  /\ g = NoGovernor
        /\ g' = [functionName |-> functionName, executionRunID |-> executionRunID,
                 lambdaClient |-> lambdaClient, backend |-> backend]
        /\ b' = IF backend # LambdaType THEN b
                ELSE IF opts.backend.given THEN NewLambdaBackend("own-func", Nil)
                ELSE NewLambdaBackend(functionName, lambdaClient)
        /\ a' = IF backend = AnthropicType THEN [apiKey |-> env.ANTHROPIC_API_KEY] ELSE a
        /\ last' = [op |-> "NewGovernor", env |-> env, opts |-> opts]
        /\ UNCHANGED <<responses, callLog, mu, channel, http, hist>>

\* Available: the backend is not a *MockBackend
Available_byFunctionName(gov) == gov.functionName # ""

Available(gov) == gov.backend # MockType

Governor_Available ==
    /\ g # NoGovernor
    /\ last' = [op |-> "Available", ret |-> Available(g)]
    /\ UNCHANGED <<g, lambdaVars, anthropicVars, responses, callLog, mu, hist>>

\* Backend, were the backend chosen anew from the environment at each call
Governor_Backend_fromEnv ==
    /\ g # NoGovernor
    /\ last' = [op |-> "Backend",
                ret |-> selectBackend(environ.LLM_GOVERNOR_FUNCTION, environ.ANTHROPIC_API_KEY)]
    /\ UNCHANGED <<g, lambdaVars, anthropicVars, responses, callLog, mu, hist>>

\* Backend: the backend the facade holds
Governor_Backend ==
    /\ g # NoGovernor
    /\ last' = [op |-> "Backend", ret |-> g.backend]
    /\ UNCHANGED <<g, lambdaVars, anthropicVars, responses, callLog, mu, hist>>

\* The environments and options NewGovernor is tried with.
Environments ==
    [LLM_GOVERNOR_FUNCTION : {"", "my-func"}, EXECUTION_RUN_ID : {"", "run-123"},
     ANTHROPIC_API_KEY : {"", "sk-ant-test"}]

OptionLists ==
    [functionName : {NotPassed, With(""), With("explicit-func")},
     executionRunID : {NotPassed, With("custom-run")},
     lambdaClient : {NotPassed, With("test-client")},
     backend : {NotPassed, With(MockType), With(LambdaType), With(AnthropicType)}]

Prompts == {"Hello", ""}
FilePaths == {"doc.pdf", ""}
FileSystems ==
    { [p \in {"doc.pdf"} |-> [ok |-> FALSE]],
      [p \in {"doc.pdf"} |-> [ok |-> TRUE, data |-> << 77 >>]] }

\* The defaults Invoke fills in before it delegates.
withDefaults_always(gov, req) ==
    [req EXCEPT !.Action = "invoke", !.ExecutionRunID = gov.executionRunID]

withDefaults(gov, req) ==
    [req EXCEPT !.Action = IF @ = "" THEN "invoke" ELSE @,
                !.ExecutionRunID = IF @ = "" THEN gov.executionRunID ELSE @]

\* What the caller of a facade operation gets: the response for Invoke, its
\* text (or "" with the error) for Ask, AskWithSystem and AskAboutFile.
Returned(op, r) ==
    IF op = "Invoke" THEN r.resp
    ELSE IF r.err # NoError THEN "" ELSE Text(r.resp)

\* params: the arguments of the call (besides ctx); arg: the request the
\* operation hands to Invoke; req: the request the backend receives.
Outcome(ctx, op, params, arg, req, reply, r) ==
    [op |-> op, ctx |-> ctx, params |-> params, arg |-> arg, req |-> req, reply |-> reply,
     resp |-> r.resp, err |-> r.err, ret |-> Returned(op, r)]

\* g.backend.Invoke(ctx, req) for the facade operation op called with arg.
delegateInvoke(ctx, op, params, arg, req) ==
    \/ /\ g.backend = MockType
       /\ Len(callLog) < MaxSends
       /\ callLog' = appendLog(callLog, req)
       /\ responses' = mockAdvance(responses)
       /\ hist' = [hist EXCEPT !.answered = @ + 1]
       /\ last' = Outcome(ctx, op, params, arg, req, NoReply,
                          [resp |-> mockResponse(responses, req), err |-> NoError])
       /\ UNCHANGED <<g, lambdaVars, anthropicVars, mu>>
    \/ /\ g.backend = LambdaType
       /\ Len(channel) < MaxSends
       /\ \E cfgOk \in BOOLEAN, reply \in channelReplies(ctx) :
             /\ call(MarshalRequest(req), cfgOk)
             /\ LET r == callResult(InvokeResponseType, InvokeResponseZero, cfgOk, reply)
                IN  last' = Outcome(ctx, op, params, arg, req,
                                    IF callSends(cfgOk) THEN reply ELSE NoReply,
                                    [resp |-> toInvokeResponse(r.val), err |-> r.err])
       /\ UNCHANGED <<g, anthropicVars, responses, callLog, mu, hist>>
    \/ /\ g.backend = AnthropicType
       /\ Len(http) < MaxSends
       /\ \E fs \in FileSystems, reply \in httpReplies(ctx) :
             /\ http' = send(http, [apiKey |-> a.apiKey, body |-> anthropicRequest(req, fs)])
             /\ last' = Outcome(ctx, op, params, arg, req, reply, anthropicResult(reply))
       /\ UNCHANGED <<g, lambdaVars, a, responses, callLog, mu, hist>>

Governor_Invoke(ctx, req) ==
    /\ g # NoGovernor
    /\ delegateInvoke(ctx, "Invoke", [req |-> req], req, withDefaults(g, req))

Ask(ctx, model, prompt) ==
    /\ g # NoGovernor
    /\ LET req == InvokeRequest("", model, << UserMessage(<< TextBlock(prompt) >>) >>,
                                "", 0, 0, "")
       IN  delegateInvoke(ctx, "Ask", [model |-> model, prompt |-> prompt],
                          req, withDefaults(g, req))

AskWithSystem(ctx, model, system, prompt) ==
    /\ g # NoGovernor
    /\ LET req == InvokeRequest("", model, << UserMessage(<< TextBlock(prompt) >>) >>,
                                system, 0, 0, "")
       IN  delegateInvoke(ctx, "AskWithSystem",
                          [model |-> model, system |-> system, prompt |-> prompt],
                          req, withDefaults(g, req))

AskAboutFile_fileFirst(ctx, model, prompt, filePath) ==
    /\ g # NoGovernor
    /\ LET req == InvokeRequest("", model,
                                << UserMessage(<< FileBlock(filePath), TextBlock(prompt) >>) >>,
                                "", 0, 0, "")
       IN  delegateInvoke(ctx, "AskAboutFile",
                          [model |-> model, prompt |-> prompt, filePath |-> filePath],
                          req, withDefaults(g, req))

AskAboutFile(ctx, model, prompt, filePath) ==
    /\ g # NoGovernor
    /\ LET req == InvokeRequest("", model,
                                << UserMessage(<< TextBlock(prompt), FileBlock(filePath) >>) >>,
                                "", 0, 0, "")
       IN  delegateInvoke(ctx, "AskAboutFile",
                          [model |-> model, prompt |-> prompt, filePath |-> filePath],
                          req, withDefaults(g, req))

\* g.backend.CheckBudget(ctx, g.executionRunID)
Governor_CheckBudget(ctx) ==
    /\ g # NoGovernor
    /\ \/ /\ g.backend = MockType
          /\ last' = [op |-> "CheckBudget", ctx |-> ctx, reply |-> NoReply, resp |-> mockBudget, err |-> NoError]
          /\ UNCHANGED <<g, lambdaVars, anthropicVars, responses, callLog, mu, hist>>
       \/ /\ g.backend = LambdaType
          /\ Len(channel) < MaxSends
          /\ \E cfgOk \in BOOLEAN, reply \in channelReplies(ctx) :
                /\ call(CheckBudgetPayload(g.executionRunID), cfgOk)
                /\ LET r == callResult(CheckBudgetResponseType, CheckBudgetResponseZero,
                                       cfgOk, reply)
                   IN  last' = [op |-> "CheckBudget", ctx |-> ctx,
                                reply |-> IF callSends(cfgOk) THEN reply ELSE NoReply,
                                resp |-> toCheckBudgetResponse(r.val), err |-> r.err]
          /\ UNCHANGED <<g, anthropicVars, responses, callLog, mu, hist>>
       \/ /\ g.backend = AnthropicType
          /\ last' = [op |-> "CheckBudget", ctx |-> ctx, reply |-> NoReply, resp |-> anthropicBudget,
                      err |-> NoError]
          /\ UNCHANGED <<g, lambdaVars, anthropicVars, responses, callLog, mu, hist>>

\* g.backend.ListModels(ctx)
Governor_ListModels(ctx) ==
    /\ g # NoGovernor
    /\ \/ /\ g.backend \in {MockType, AnthropicType}
          /\ last' = [op |-> "ListModels", ctx |-> ctx, reply |-> NoReply, resp |-> [Models |-> allModels],
                      err |-> NoError]
          /\ UNCHANGED <<g, lambdaVars, anthropicVars, responses, callLog, mu, hist>>
       \/ /\ g.backend = LambdaType
          /\ Len(channel) < MaxSends
          /\ \E cfgOk \in BOOLEAN, reply \in channelReplies(ctx) :
                /\ call(ListModelsPayload, cfgOk)
                /\ LET r == callResult(ListModelsResponseType, ListModelsResponseZero,
                                       cfgOk, reply)
                   IN  last' = [op |-> "ListModels", ctx |-> ctx,
                                reply |-> IF callSends(cfgOk) THEN reply ELSE NoReply,
                                resp |-> toListModelsResponse(r.val), err |-> r.err]
          /\ UNCHANGED <<g, anthropicVars, responses, callLog, mu, hist>>

Init ==
    /\ ZeroBackends
    /\ thr = [c \in Callers |-> [pc |-> "idle"]]
    /\ last = [op |-> "start"]

Next ==
    \/ \E env \in Environments, opts \in OptionLists : NewGovernor(env, opts) /\ UNCHANGED <<thr, environ>>
    \/ Governor_Available /\ UNCHANGED <<thr, environ>>
    \/ Governor_Backend /\ UNCHANGED <<thr, environ>>
    \/ \E ctx \in Contexts, req \in Requests : Governor_Invoke(ctx, req) /\ UNCHANGED <<thr, environ>>
    \/ \E ctx \in Contexts, prompt \in Prompts :
          Ask(ctx, ModelHaiku45, prompt) /\ UNCHANGED <<thr, environ>>
    \/ \E ctx \in Contexts, prompt \in Prompts :
          AskWithSystem(ctx, ModelHaiku45, "sys", prompt) /\ UNCHANGED <<thr, environ>>
    \/ \E ctx \in Contexts, path \in FilePaths :
          AskAboutFile(ctx, ModelSonnet46, "Hello", path) /\ UNCHANGED <<thr, environ>>
    \/ \E ctx \in Contexts : Governor_CheckBudget(ctx) /\ UNCHANGED <<thr, environ>>
    \/ \E ctx \in Contexts : Governor_ListModels(ctx) /\ UNCHANGED <<thr, environ>>
    \/ \E resp \in Resps : g.backend = MockType /\ SetResponse(resp) /\ UNCHANGED <<thr, environ>>

\* One facade, built once and then used one call at a time.
Spec == Init /\ [][Next]_vars

-----------------------------------------------------------------------------
(* Claims about the facade *)

InvokeOps == {"Invoke", "Ask", "AskWithSystem", "AskAboutFile"}

\* An error raised before any call on the channel because of what is configured.
ConfigurationError(err) ==
    /\ err.type = "*errors.errorString"
    /\ err.what \in {"executionRunId is required", "failed to load AWS config"}

\* C1: Invoke on a facade whose backend is the Lambda backend, with an empty
\* executionRunId in the request and an empty default in the facade, fails with
\* a configuration error and the invocation channel is not called.
C1_MissingRunIDFailsFast ==
    (/\ last.op = "Invoke"
     /\ g.backend = LambdaType
     /\ last.arg.ExecutionRunID = ""
     /\ g.executionRunID = "")
    => /\ ConfigurationError(last.err)
       /\ last.reply = NoReply
       /\ channel = <<>>

\* C2: NewGovernor takes the backend passed with WithBackend whenever one is
\* passed; otherwise the Lambda backend when the function name (option, else
\* environment) is not empty; otherwise the Anthropic backend when
\* ANTHROPIC_API_KEY is not empty; otherwise the mock.
C2_BackendPrecedence ==
    last.op = "NewGovernor" =>
        LET opts == last.opts
            env == last.env
            name == IF opts.functionName.given THEN opts.functionName.v
                    ELSE env.LLM_GOVERNOR_FUNCTION
        IN  /\ opts.backend.given => g.backend = opts.backend.v
            /\ (~opts.backend.given /\ name # "") =>
                   (g.backend = LambdaType /\ b.functionName = name)
            /\ (~opts.backend.given /\ name = "" /\ env.ANTHROPIC_API_KEY # "") =>
                   g.backend = AnthropicType
            /\ (~opts.backend.given /\ name = "" /\ env.ANTHROPIC_API_KEY = "") =>
                   g.backend = MockType

\* a function name given only by option wins over an API key in the environment
C2_Witness ==
    /\ last.op = "NewGovernor"
    /\ ~last.opts.backend.given
    /\ last.env.LLM_GOVERNOR_FUNCTION = ""
    /\ last.opts.functionName = With("explicit-func")
    /\ last.env.ANTHROPIC_API_KEY # ""
    /\ g.backend = LambdaType

C4_DefaultsOnlyEmptyFields ==
    last.op = "Invoke" =>
        LET arg == last.arg
            req == last.req
        IN  /\ req.Action = (IF arg.Action = "" THEN "invoke" ELSE arg.Action)
            /\ req.ExecutionRunID =
                   (IF arg.ExecutionRunID = "" THEN g.executionRunID ELSE arg.ExecutionRunID)
            /\ req.Model = arg.Model
            /\ req.Messages = arg.Messages
            /\ req.System = arg.System
            /\ req.MaxTokens = arg.MaxTokens
            /\ req.Temperature = arg.Temperature
            /\ g.backend = MockType => callLog[Len(callLog)] = req
            /\ (g.backend = LambdaType /\ last.reply # NoReply) =>
                   channel[Len(channel)].Payload = MarshalRequest(req)
            /\ g.backend = AnthropicType =>
                   /\ http[Len(http)].body.model = MapModel(arg.Model)
                   /\ http[Len(http)].body.system = arg.System

\* the caller's own run id is kept although the facade has a default, and the
\* empty action becomes "invoke"
C4_Witness ==
    /\ last.op = "Invoke"
    /\ g.backend = LambdaType
    /\ g.executionRunID = "custom-run"
    /\ last.arg.Action = ""
    /\ last.arg.ExecutionRunID = "run-2"
    /\ last.reply # NoReply
    /\ channel[1].Payload.fields.executionRunId.v = "run-2"
    /\ channel[1].Payload.fields.action.v = "invoke"

-----------------------------------------------------------------------------
(* Claims about the Lambda backend *)

\* A reply that came back over the channel without a fault
Delivered(reply) == reply # NoReply /\ ~reply.err /\ reply.FunctionError = Nil

\* The value of key k of a payload, zero when the key is absent or null
Field(p, k, zero) ==
    IF p.kind = "object" /\ k \in DOMAIN p.fields /\ p.fields[k].t # "null"
    THEN p.fields[k].v ELSE zero

\* The payload is a JSON document a struct with the fields of type takes
Fits(p, type) ==
    \/ p.kind = "null"
    \/ /\ p.kind = "object"
       /\ \A k \in DOMAIN p.fields \cap DOMAIN type : p.fields[k].t \in {type[k], "null"}

\* The payload is an error envelope with a non-empty error field
ErrorEnvelope(p) ==
    /\ p.kind = "object"
    /\ Fits(p, ErrorResponseType)
    /\ Field(p, "error", "") # ""

ExpectedType(op) ==
    IF op = "CheckBudget" THEN CheckBudgetResponseType
    ELSE IF op = "ListModels" THEN ListModelsResponseType
    ELSE InvokeResponseType

\* C10: for every payload that arrives without a transport fault, in Invoke,
\* CheckBudget and ListModels alike: an error envelope with a non-empty error
\* field fails the call with a GovernorError carrying its code, message,
\* allowedModels, budgetRemaining and retryAfterSeconds, and no result; any
\* other payload is decoded as the expected result type and returned; a payload
\* that is not JSON (or does not fit the result type) fails the call with a
\* plain deserialisation error.
C10_ErrorEnvelopeFirst ==
    (/\ last.op \in InvokeOps \cup {"CheckBudget", "ListModels"}
     /\ g.backend = LambdaType
     /\ Delivered(last.reply)) =>
        LET p == last.reply.Payload
        IN  IF ErrorEnvelope(p)
            THEN /\ IsGovernorError(last.err)
                 /\ last.err.Code = p.fields.error.v
                 /\ last.err.Msg = Field(p, "message", "")
                 /\ last.err.AllowedModels = Field(p, "allowedModels", <<>>)
                 /\ last.err.BudgetRemaining = Field(p, "budgetRemaining", NoBudget)
                 /\ last.err.RetryAfterSec = Field(p, "retryAfterSeconds", 0)
                 /\ last.resp = NoResponse
            ELSE IF Fits(p, ExpectedType(last.op))
            THEN /\ last.err = NoError
                 /\ last.resp # NoResponse
                 /\ last.op \in InvokeOps =>
                        /\ last.resp.Model = Field(p, "model", "")
                        /\ last.resp.StopReason = Field(p, "stopReason", "")
                        /\ Len(last.resp.Content) = Len(Field(p, "content", <<>>))
                 /\ last.op = "CheckBudget" =>
                        last.resp.BudgetPeriod = Field(p, "budgetPeriod", "")
                 /\ last.op = "ListModels" =>
                        Len(last.resp.Models) = Len(Field(p, "models", <<>>))
            ELSE /\ last.err = PlainError("failed to unmarshal response")
                 /\ ~IsGovernorError(last.err)
                 /\ last.resp = NoResponse

\* an envelope that also carries the fields of a result is still an error
C10_Witness ==
    /\ last.op = "Invoke"
    /\ g.backend = LambdaType
    /\ Delivered(last.reply)
    /\ last.reply.Payload = JObject([error |-> JStr("other_code"), content |-> JArr(TextContent)])
    /\ IsGovernorError(last.err)
    /\ last.err.Code = "other_code"
    /\ last.resp = NoResponse

\* The channel was called and reported a fault: an error of the invocation
\* itself, or a reply flagged with a function error
Faulted(reply) == reply # NoReply /\ (reply.err \/ reply.FunctionError # Nil)

LambdaOps == InvokeOps \cup {"CheckBudget", "ListModels"}

\* C11: when the channel reports a fault (an invocation error, or a reply with
\* the function-error flag), the call on the Lambda backend returns a plain error
\* that IsGovernorError does not recognise and no result, whatever the payload
\* of the reply holds, an error envelope included.
C11_FaultBeforeDecoding ==
    (/\ last.op \in LambdaOps
     /\ g.backend = LambdaType
     /\ Faulted(last.reply)) =>
        /\ last.err # NoError
        /\ ~IsGovernorError(last.err)
        /\ last.err.what =
              (IF last.reply.err THEN "failed to invoke governor" ELSE "governor function error")
        /\ last.resp = NoResponse

\* a reply flagged with a function error whose payload is a well-formed envelope
C11_Witness ==
    /\ last.op = "CheckBudget"
    /\ g.backend = LambdaType
    /\ Faulted(last.reply)
    /\ ~last.reply.err
    /\ ErrorEnvelope(last.reply.Payload)
    /\ last.err = PlainError("governor function error")

\* The remote service answered the facade operation with an error envelope
Rejected ==
    /\ g.backend = LambdaType
    /\ Delivered(last.reply)
    /\ ErrorEnvelope(last.reply.Payload)

\* C14: through the facade (Invoke, Ask, AskWithSystem, AskAboutFile) an error
\* envelope of the remote service reaches the caller as an error IsGovernorError
\* recognises, with the envelope's code and fields, and as nothing else (Ask and
\* its kin return the empty text with it); every other error of a facade
\* operation (configuration, transport, deserialisation, on any backend) is
\* not recognised by IsGovernorError.
C14_RejectionStaysClassifiable ==
    last.op \in InvokeOps =>
        IF Rejected
        THEN LET p == last.reply.Payload
             IN  /\ IsGovernorError(last.err)
                 /\ last.err = GovernorError(p.fields.error.v, Field(p, "message", ""),
                                             Field(p, "allowedModels", <<>>),
                                             Field(p, "budgetRemaining", NoBudget),
                                             Field(p, "retryAfterSeconds", 0))
                 /\ last.op # "Invoke" => last.ret = ""
        ELSE /\ ~IsGovernorError(last.err)
             /\ last.err # NoError => last.err.type \in {"*errors.errorString", "*fmt.wrapError"}

\* a budget rejection answered to AskAboutFile, with the budget that is left
C14_Witness ==
    /\ last.op = "AskAboutFile"
    /\ Rejected
    /\ last.err.Code = "budget_exceeded"
    /\ last.err.BudgetRemaining = BudgetLeft
    /\ last.ret = ""

-----------------------------------------------------------------------------
(* Claims about cancellation and retries *)

\* errors.Unwrap: the cause an error wraps, Nil when it wraps none
Unwrap(err) == IF "cause" \in DOMAIN err THEN err.cause ELSE Nil

\* The operation goes over a transport: every operation of the Lambda backend,
\* and Invoke of the Anthropic backend
UsesTransport(backend, op) ==
    backend = LambdaType \/ (backend = AnthropicType /\ op \in InvokeOps)

C13_NoRetry ==
    [][ LET sent == (Len(channel') - Len(channel)) + (Len(http') - Len(http))
        IN  IF last'.op \in LambdaOps
            THEN /\ sent = (IF last'.reply # NoReply THEN 1 ELSE 0)
                 /\ last'.err # NoError => sent <= 1
                 /\ UsesTransport(g.backend, last'.op) =>
                        (last'.reply # NoReply \/ ConfigurationError(last'.err))
            ELSE sent = 0 ]_vars

\* a reply that cannot be decoded: the failure is returned after the one call
C13_Witness ==
    /\ last.op = "Invoke"
    /\ g.backend = LambdaType
    /\ Delivered(last.reply)
    /\ last.reply.Payload = JInvalid
    /\ last.err = PlainError("failed to unmarshal response")
    /\ Len(channel) = 1

-----------------------------------------------------------------------------
(* LambdaBackend.call by concurrent callers of one backend, statement by     *)
(* statement.  The backend holds no lock: b.lambdaClient is read and written *)
(* as the statements of ensureClient and call come.                         *)

ConcReplies ==
    { InvokeError,
      Output(Nil, JObject([content |-> JArr(TextContent), model |-> JStr("m")])),
      Output(Nil, JObject([error |-> JStr("budget_exceeded"), message |-> JStr("over")])) }

ClientOf(c) == "client-" \o ToString(c)

\* if b.lambdaClient != nil { return nil }
CheckClient(c) ==
    /\ thr[c].pc = "idle"
    /\ thr' = [thr EXCEPT ![c].pc = IF b.lambdaClient # Nil THEN "invoke" ELSE "load"]
    /\ UNCHANGED <<environ, g, lambdaVars, anthropicVars, responses, callLog, mu, last, hist>>

\* cfg, err := config.LoadDefaultConfig(ctx)
LoadDefaultConfig(c) ==
    /\ thr[c].pc = "load"
    /\ \E cfgOk \in BOOLEAN :
          thr' = [thr EXCEPT ![c].pc = IF cfgOk THEN "store" ELSE "done",
                             ![c].err = IF cfgOk THEN NoError
                                        ELSE PlainError("failed to load AWS config")]
    /\ UNCHANGED <<environ, g, lambdaVars, anthropicVars, responses, callLog, mu, last, hist>>

\* b.lambdaClient = lambda.NewFromConfig(cfg)
StoreClient(c) ==
    /\ thr[c].pc = "store"
    /\ b' = [b EXCEPT !.lambdaClient = ClientOf(c)]
    /\ thr' = [thr EXCEPT ![c].pc = "invoke"]
    /\ UNCHANGED <<environ, g, channel, anthropicVars, responses, callLog, mu, last, hist>>

\* output, err := b.lambdaClient.Invoke(...) and the decoding of the output
InvokeChannel(c) ==
    /\ thr[c].pc = "invoke"
    /\ channel' = send(channel, [FunctionName |-> b.functionName,
                                 Payload |-> MarshalRequest(thr[c].req),
                                 client |-> b.lambdaClient])
    /\ \E reply \in ConcReplies :
          LET r == IF reply.err
                   THEN [err |-> wrapError("failed to invoke governor", reply.cause),
                         val |-> NoResponse]
                   ELSE decode(reply.Payload, InvokeResponseType, InvokeResponseZero)
          IN  thr' = [thr EXCEPT ![c].pc = "done", ![c].err = r.err,
                                 ![c].resp = toInvokeResponse(r.val)]
    /\ UNCHANGED <<environ, g, b, anthropicVars, responses, callLog, mu, last, hist>>

InitLambdaConc ==
    /\ g = NoGovernor
    /\ \E client \in {Nil, "test-client"} : b = NewLambdaBackend("my-func", client)
    /\ responses = <<>>
    /\ callLog = <<>>
    /\ mu = Unlocked
    /\ channel = <<>>
    /\ a = [apiKey |-> ""]
    /\ http = <<>>
    /\ hist = [installed |-> <<>>, answered |-> 0]
    /\ thr = [c \in Callers |->
                [pc |-> "idle", req |-> CallerRequest(c), resp |-> NoResponse,
                 err |-> NoError]]
    /\ last = [op |-> "NewLambdaBackend"]
    /\ environ = NoEnvironment

NextLambdaConc ==
    \E c \in Callers :
        \/ CheckClient(c)
        \/ LoadDefaultConfig(c)
        \/ StoreClient(c)
        \/ InvokeChannel(c)

SpecLambdaConc == InitLambdaConc /\ [][NextLambdaConc]_vars

\* The next statement of caller c reads, or writes, the field b.lambdaClient.
ReadsClient(c) == thr[c].pc \in {"idle", "invoke"}
WritesClient(c) == thr[c].pc = "store"

\* Two callers are about to access b.lambdaClient, one of them writing, and
\* nothing orders the two accesses.
ClientRace ==
    \E c1, c2 \in Callers :
        c1 # c2 /\ WritesClient(c1) /\ (ReadsClient(c2) \/ WritesClient(c2))

\* C9: concurrent callers of one Lambda backend never access a field of the
\* backend without synchronisation, also when the client is made on first use.
C9_NoUnsynchronisedAccess == ~ClientRace

-----------------------------------------------------------------------------
(* The Anthropic backend on its own: Invoke against every answer the         *)
(* provider's endpoint may give.                                             *)

\* The bodies of the provider: broken ones, error envelopes (complete, without
\* a message, without a type, with a string for the error), a reply with both
\* content and error, and replies with every content of up to MaxAPIBlocks blocks.
APIBlocks ==
    { [type |-> "text", text |-> "Hello "], [type |-> "text", text |-> ""],
      [type |-> "tool_use", text |-> ""], [type |-> "Text", text |-> "x"] }

ErrorBodies ==
    { JInvalid, JNull, JArray, APIError, APISuccess,
      JObject([error |-> JObj([type |-> "overloaded_error", message |-> ""])]),
      JObject([error |-> JObj([type |-> "", message |-> "boom"])]),
      JObject([error |-> JStr("budget_exceeded"), message |-> JStr("over")]),
      JObject([content |-> JArr(APIContent),
               error |-> JObj([type |-> "api_error", message |-> "partial"])]) }

SuccessBodies ==
    { JObject([content |-> JArr(blocks), model |-> JStr("claude-sonnet-4-6"),
               stop_reason |-> JStr("max_tokens"),
               usage |-> JObj([input_tokens |-> 7, output_tokens |-> 3])]) :
        blocks \in UNION { [1..n -> APIBlocks] : n \in 0..MaxAPIBlocks } }
    \cup { JObject([content |-> JArr(APIContent)]),
           JObject([content |-> JStr("Hello"), model |-> JStr("claude-sonnet-4-6")]),
           JObject([model |-> JStr("claude-sonnet-4-6"), stop_reason |-> JStr("end_turn")]) }

ProviderReplies ==
    { HTTPError, HTTPResponse(StatusOK, FALSE, JInvalid), HTTPResponse(503, FALSE, JInvalid) }
    \cup { HTTPResponse(status, TRUE, body) :
             status \in {StatusOK, 201, 400, 429, 500, 529}, body \in ErrorBodies }
    \cup { HTTPResponse(StatusOK, TRUE, body) : body \in SuccessBodies }

providerReplies(ctx) == IF ctx = Nil THEN ProviderReplies ELSE httpReplies(ctx)

AnthropicBackend_Invoke(ctx, req) ==
    /\ Len(http) < MaxSends
    /\ \E fs \in FileSystems, reply \in providerReplies(ctx) :
          /\ http' = send(http, [apiKey |-> a.apiKey, body |-> anthropicRequest(req, fs)])
          /\ last' = [op |-> "Invoke", ctx |-> ctx, req |-> req, reply |-> reply,
                      resp |-> anthropicResult(reply).resp,
                      err |-> anthropicResult(reply).err]
    /\ UNCHANGED <<g, lambdaVars, a, responses, callLog, mu, hist>>

\* NewAnthropicBackend(WithAPIKey("sk-ant-test"))
InitAnthropic ==
    /\ g = NoGovernor
    /\ b = [functionName |-> "", lambdaClient |-> Nil]
    /\ responses = <<>>
    /\ callLog = <<>>
    /\ mu = Unlocked
    /\ channel = <<>>
    /\ a = [apiKey |-> "sk-ant-test"]
    /\ http = <<>>
    /\ hist = [installed |-> <<>>, answered |-> 0]
    /\ thr = [c \in Callers |-> [pc |-> "idle"]]
    /\ last = [op |-> "NewAnthropicBackend"]
    /\ environ = NoEnvironment

NextAnthropic ==
    \E ctx \in Contexts, req \in Requests : AnthropicBackend_Invoke(ctx, req) /\ UNCHANGED <<thr, environ>>

SpecAnthropic == InitAnthropic /\ [][NextAnthropic]_vars

\* A reply that came back with a status and a body that could be read
Answered(reply) == ~reply.err /\ reply.readOK

\* The body is an error envelope of the provider: an object whose error is an
\* object with a message
ProviderEnvelope(body) ==
    /\ body.kind = "object"
    /\ "error" \in DOMAIN body.fields
    /\ body.fields.error.t = "object"
    /\ body.fields.error.v.message # ""

\* C24: on a status other than 200 Invoke returns an error and no response;
\* the error carries the type and the message of the provider's error
\* envelope when the body is one, and the status code with the raw body
\* otherwise; a body that reads as a success reply is not returned.
C24_NonSuccessStatusIsAnError ==
    (last.op = "Invoke" /\ Answered(last.reply) /\ last.reply.StatusCode # 200) =>
        /\ last.err # NoError
        /\ last.resp = NoResponse
        /\ IF ProviderEnvelope(last.reply.Body)
           THEN /\ last.err.what = "Anthropic API error"
                /\ last.err.errType = last.reply.Body.fields.error.v.type
                /\ last.err.message = last.reply.Body.fields.error.v.message
           ELSE /\ last.err.what = "Anthropic API returned status"
                /\ last.err.status = last.reply.StatusCode
                /\ last.err.body = last.reply.Body

\* a server error whose body reads as a complete success reply
C24_Witness ==
    /\ last.op = "Invoke"
    /\ last.reply = HTTPResponse(500, TRUE, APISuccess)
    /\ last.resp = NoResponse
    /\ last.err.what = "Anthropic API returned status"
    /\ last.err.status = 500
    /\ last.err.body = APISuccess

\* C25: when Invoke succeeds, Content is the "text" blocks of the provider's
\* content, in the provider's order and with their text unchanged, the blocks
\* of other types being dropped; the token counts, the model and the stop
\* reason are those of the reply.  A 200 reply that fits the reply type
\* always succeeds.
C25_SuccessKeepsTextBlocks ==
    last.op = "Invoke" =>
        /\ (Answered(last.reply) /\ last.reply.StatusCode = 200
                /\ Fits(last.reply.Body, anthropicResponseType)) => last.err = NoError
        /\ last.err = NoError =>
              LET body == last.reply.Body
                  blocks == Field(body, "content", << >>)
                  texts == SelectSeq(blocks, LAMBDA blk : blk.type = "text")
                  usage == Field(body, "usage", [input_tokens |-> 0, output_tokens |-> 0])
              IN  /\ Answered(last.reply) /\ last.reply.StatusCode = 200
                  /\ last.resp.Content
                        = [k \in 1..Len(texts) |-> [Type |-> "text", Text |-> texts[k].text]]
                  /\ last.resp.Usage.InputTokens = usage.input_tokens
                  /\ last.resp.Usage.OutputTokens = usage.output_tokens
                  /\ last.resp.Model = Field(body, "model", "")
                  /\ last.resp.StopReason = Field(body, "stop_reason", "")

\* a tool_use block between two text blocks is dropped
C25_Witness ==
    /\ last.op = "Invoke"
    /\ last.reply = HTTPResponse(200, TRUE, APISuccess)
    /\ last.err = NoError
    /\ last.resp.Content = << ResponseContent("text", "Hello "), ResponseContent("text", "world") >>
    /\ last.resp.Usage = UsageInfo(11, 5)
    /\ last.resp.Model = "claude-haiku-4-5-20251001"
    /\ last.resp.StopReason = "end_turn"

-----------------------------------------------------------------------------
(* The functions of the package that touch no backend state, each called     *)
(* once on an input of its own.                                              *)

Codes ==
    { "budget_exceeded", "model_not_allowed", "provider_not_allowed", "model_not_enabled",
      "bedrock_throttled", "", "other_code", "BUDGET_EXCEEDED", "budget_exceeded ",
      "throttled", "bedrock_error", "model_not_allowed,model_not_enabled" }

GovernorErrors ==
    { GovernorError(code, msg, <<>>, NoBudget, retry) :
        code \in Codes, msg \in {"", "over"}, retry \in {0, 30} }

\* The six methods of one *GovernorError
GovernorErrorMethods ==
    /\ thr[1].pc = "idle"
    /\ \E e \in GovernorErrors :
          last' = [op |-> "GovernorError", err |-> e,
                   Error |-> GovernorError_Error(e),
                   IsBudgetExceeded |-> IsBudgetExceeded(e),
                   IsModelNotAllowed |-> IsModelNotAllowed(e),
                   IsProviderNotAllowed |-> IsProviderNotAllowed(e),
                   IsModelNotEnabled |-> IsModelNotEnabled(e),
                   IsThrottled |-> IsThrottled(e)]
    /\ thr' = [thr EXCEPT ![1].pc = "done"]
    /\ UNCHANGED <<environ, g, lambdaVars, anthropicVars, responses, callLog, mu, hist>>

\* The model ids MapModel is called with
ModelIDs ==
    DOMAIN modelMap
    \cup { modelMap[id] : id \in DOMAIN modelMap }
    \cup { "us.anthropic.claude-opus-9", "us.anthropic.us.anthropic.claude-x", "us.anthropic.",
           "us.anthropic", "US.ANTHROPIC.claude-x", "eu.anthropic.claude-x",
           "x.us.anthropic.claude-x", "anthropic.claude-v2", "gpt-4", "", "claude-3-opus",
           "us.anthropic.claude-sonnet-4-6-v2" }

MapModelCall ==
    /\ thr[1].pc = "idle"
    /\ \E id \in ModelIDs : last' = [op |-> "MapModel", id |-> id, ret |-> MapModel(id)]
    /\ thr' = [thr EXCEPT ![1].pc = "done"]
    /\ UNCHANGED <<environ, g, lambdaVars, anthropicVars, responses, callLog, mu, hist>>

\* The files of the machine convertMessages runs on: readable ones of 0 to 4
\* bytes and one that exists and cannot be read; no other path exists.
LocalFiles ==
    ("doc.pdf" :> [ok |-> TRUE, data |-> << 37, 80, 68, 70 >>])
    @@ ("notes.md" :> [ok |-> TRUE, data |-> << 255 >>])
    @@ ("data.bin" :> [ok |-> TRUE, data |-> << 0, 255 >>])
    @@ ("dir.v2/README" :> [ok |-> TRUE, data |-> << 1, 2, 3 >>])
    @@ ("empty.txt" :> [ok |-> TRUE, data |-> << >>])
    @@ ("locked.csv" :> [ok |-> FALSE])

\* Content blocks of every type, as a caller can build them
ImageBlocks ==
    { ContentBlock("image", "", "", format, "QUJD", mediaType) :
        format \in {"", "png"}, mediaType \in {"", "image/jpeg"} }
DocumentBlocks ==
    { ContentBlock("document", "", "", format, "QUJD", mediaType) :
        format \in {"pdf", "xyz"}, mediaType \in {"", "text/csv"} }
FileBlocks == { FileBlock(path) : path \in DOMAIN LocalFiles \cup {"", "gone.pdf"} }
OtherBlocks ==
    { ContentBlock(type, "t", "p", "f", "d", "m") : type \in {"tool_use", "", "Text", "video"} }
AllBlocks ==
    { TextBlock("hi"), TextBlock("") } \cup ImageBlocks \cup DocumentBlocks
    \cup FileBlocks \cup OtherBlocks

\* One block of each kind, for the lists of several blocks
KindBlocks ==
    { TextBlock("hi"), ContentBlock("image", "", "", "png", "QUJD", ""), FileBlock("gone.pdf"),
      FileBlock("doc.pdf"), ContentBlock("tool_use", "t", "p", "f", "d", "m") }

RECURSIVE SumTo(_, _)
SumTo(lens, i) == IF i = 0 THEN 0 ELSE lens[i] + SumTo(lens, i - 1)

\* The list of messages with the given roles whose contents cut blocks into
\* pieces of the lengths lens
MessageList(roles, lens, blocks) ==
    [i \in 1..Len(lens) |->
        Message(roles[i], SubSeq(blocks, SumTo(lens, i - 1) + 1, SumTo(lens, i)))]

RECURSIVE messageReads(_, _)
messageReads(blocks, j) ==
    IF j > Len(blocks) THEN <<>>
    ELSE (IF blocks[j].Type = "efs_document" THEN efsReads(blocks[j]) ELSE <<>>)
         \o messageReads(blocks, j + 1)

ConvertMessagesCall ==
    /\ thr[1].pc = "idle"
    /\ \E m \in 0..MaxConvMsgs :
       \E roles \in [1..m -> {"user", "assistant"}], lens \in [1..m -> 0..MaxConvBlocks] :
          /\ SumTo(lens, m) <= MaxConvBlocks
          /\ \E blocks \in [1..SumTo(lens, m) ->
                                IF SumTo(lens, m) <= 1 THEN AllBlocks ELSE KindBlocks] :
                last' = [op |-> "convertMessages",
                         messages |-> MessageList(roles, lens, blocks),
                         reads |-> messageReads(blocks, 1),
                         out |-> convertMessages(MessageList(roles, lens, blocks), LocalFiles)]
    /\ thr' = [thr EXCEPT ![1].pc = "done"]
    /\ UNCHANGED <<environ, g, lambdaVars, anthropicVars, responses, callLog, mu, hist>>

\* r.Text() on a response whose content is any list of entries
TextCall ==
    /\ thr[1].pc = "idle"
    /\ \E n \in 0..MaxEntries :
       \E types \in [1..n -> {"text", "Text", "tool_use", ""}],
          texts \in [1..n -> {"Hello ", "world", ""}] :
          LET r == InvokeResponse([k \in 1..n |-> ResponseContent(types[k], texts[k])],
                                  "test-model", "end_turn")
          IN  last' = [op |-> "Text", r |-> r, ret |-> Text(r)]
    /\ thr' = [thr EXCEPT ![1].pc = "done"]
    /\ UNCHANGED <<environ, g, lambdaVars, anthropicVars, responses, callLog, mu, hist>>

InitLibrary ==
    /\ ZeroBackends
    /\ thr = [c \in Callers |-> [pc |-> IF c = 1 THEN "idle" ELSE "done"]]
    /\ last = [op |-> "start"]

NextLibrary ==
    \/ GovernorErrorMethods
    \/ MapModelCall
    \/ ConvertMessagesCall
    \/ TextCall

SpecLibrary == InitLibrary /\ [][NextLibrary]_vars

-----------------------------------------------------------------------------
(* Claims about GovernorError *)

\* The code each predicate stands for
PredicateCodes ==
    [IsBudgetExceeded |-> "budget_exceeded", IsModelNotAllowed |-> "model_not_allowed",
     IsProviderNotAllowed |-> "provider_not_allowed", IsModelNotEnabled |-> "model_not_enabled",
     IsThrottled |-> "bedrock_throttled"]

\* C15: each of the five code predicates holds exactly for its own code, so at
\* most one holds for any code and none for a code outside the five; the
\* error keeps the code as it is (it shows in the error text unchanged).
C15_CodePredicatesExact ==
    last.op = "GovernorError" =>
        /\ \A pred \in DOMAIN PredicateCodes :
               last[pred] = (last.err.Code = PredicateCodes[pred])
        /\ Cardinality({ pred \in DOMAIN PredicateCodes : last[pred] }) <= 1
        /\ last.Error = "governor error [" \o last.err.Code \o "]: " \o last.err.Msg

\* a code that only resembles a known one satisfies no predicate
C15_Witness ==
    /\ last.op = "GovernorError"
    /\ last.err.Code = "bedrock_error"
    /\ \A pred \in DOMAIN PredicateCodes : ~last[pred]
    /\ last.Error = "governor error [bedrock_error]: over"

-----------------------------------------------------------------------------
(* Claims about the conversion of messages for the Messages API *)

\* The converted calls, and the places of their blocks
Converted == last.op = "convertMessages"
Places ==
    IF Converted
    THEN { <<i, j>> \in (1..MaxConvMsgs + 1) \X (1..MaxConvBlocks + 1) :
              i <= Len(last.messages) /\ j <= Len(last.messages[i].Content) }
    ELSE {}
BlockAt(p) == last.messages[p[1]].Content[p[2]]
WireAt(p) == last.out[p[1]].content[p[2]]

\* What one block becomes when it is the only block of the only message
Alone(block) == convertMessages(<< UserMessage(<< block >>) >>, LocalFiles)[1].content[1]

\* C16: convertMessages gives one wire message per message, in order and with
\* the same role, and one wire block per content block, in order; it never
\* fails, and a block that degrades to a text placeholder changes only its
\* own wire block: every block is converted as if it stood alone, and a text
\* block arrives verbatim whatever its neighbours are.
C16_OneWireBlockPerBlock ==
    Converted =>
        /\ Len(last.out) = Len(last.messages)
        /\ \A i \in 1..Len(last.messages) :
              /\ DOMAIN last.out[i] = {"role", "content"}
              /\ last.out[i].role = last.messages[i].Role
              /\ Len(last.out[i].content) = Len(last.messages[i].Content)
        /\ \A p \in Places :
              /\ WireAt(p).type \in {"text", "image", "document"}
              /\ WireAt(p) = Alone(BlockAt(p))
              /\ BlockAt(p).Type = "text" => WireAt(p) = WireText(BlockAt(p).Text)

\* an empty message is kept, and a missing file and an unsupported block
\* degrade next to a text block that arrives untouched
C16_Witness ==
    /\ Converted
    /\ Len(last.messages) = 2
    /\ last.messages[1] = AssistantMessage(<< >>)
    /\ last.messages[2].Content
         = << FileBlock("gone.pdf"), TextBlock("hi"),
              ContentBlock("tool_use", "t", "p", "f", "d", "m") >>
    /\ last.out[1] = [role |-> "assistant", content |-> << >>]
    /\ last.out[2].role = last.messages[2].Role
    /\ last.out[2].content
         = << WireText("[File not available locally: gone.pdf]"), WireText("hi"),
              WireText("[Unsupported content block: tool_use]") >>

\* base64.StdEncoding.DecodeString, the inverse the receiver of a document applies
DigitValue(ch) == CHOOSE i \in 0..63 : Digit(i) = ch

RECURSIVE DecodeString(_)
DecodeString(str) ==
    IF str = "" THEN << >>
    ELSE LET d(k) == DigitValue(SubSeq(str, k, k))
             rest == SubSeq(str, 5, Len(str))
         IN  IF SubSeq(str, 3, 4) = "=="
             THEN << (d(1) * 64 + d(2)) \div 16 >>
             ELSE IF SubSeq(str, 4, 4) = "="
             THEN LET v == d(1) * 4096 + d(2) * 64 + d(3)
                  IN  << v \div 1024, (v \div 4) % 256 >>
             ELSE LET v == d(1) * 262144 + d(2) * 4096 + d(3) * 64 + d(4)
                  IN  << v \div 65536, (v \div 256) % 256, v % 256 >>
                      \o DecodeString(rest)

\* The media type the extension of each readable local file stands for
MediaTypeOfFile ==
    ("doc.pdf" :> "application/pdf")
    @@ ("notes.md" :> "text/markdown")
    @@ ("data.bin" :> "application/octet-stream")
    @@ ("dir.v2/README" :> "application/octet-stream")
    @@ ("empty.txt" :> "text/plain")

Readable(path) == path \in DOMAIN LocalFiles /\ LocalFiles[path].ok

\* C17: an efs_document block with an empty path becomes the text
\* "[File not available locally: empty path]" and no file is read for it;
\* with a path that cannot be read it becomes "[File not available locally:
\* <path>]"; with a readable path it becomes a document block whose base64
\* data decodes to the bytes of the file and whose media type is the one of
\* the path's extension, application/octet-stream when the extension is unknown.
C17_EFSDocumentThreeCases ==
    /\ Converted => \A k \in 1..Len(last.reads) : last.reads[k] # ""
    /\ \A p \in Places :
          BlockAt(p).Type = "efs_document" =>
              LET path == BlockAt(p).Path
              IN  CASE path = "" ->
                         WireAt(p) = WireText("[File not available locally: empty path]")
                    [] path # "" /\ ~Readable(path) ->
                         WireAt(p) = WireText("[File not available locally: " \o path \o "]")
                    [] OTHER ->
                         /\ WireAt(p).type = "document"
                         /\ DOMAIN WireAt(p) = {"type", "source"}
                         /\ WireAt(p).source.type = "base64"
                         /\ DecodeString(WireAt(p).source.data) = LocalFiles[path].data
                         /\ WireAt(p).source.media_type = MediaTypeOfFile[path]

\* a file of four bytes with a known extension, read once
C17_Witness ==
    /\ Converted
    /\ last.messages = << UserMessage(<< FileBlock("doc.pdf") >>) >>
    /\ last.reads = << "doc.pdf" >>
    /\ last.out[1].content[1]
         = WireSource("document", "application/pdf", "JVBERg==")
    /\ DecodeString("JVBERg==") = << 37, 80, 68, 70 >>

\* The types convertContentBlock knows
KnownTypes == {"text", "image", "document", "efs_document"}

\* C18: a block of any other type, the empty type included, becomes the text
\* "[Unsupported content block: <type>]" and none of its other fields is
\* forwarded.
C18_UnsupportedBecomesPlaceholder ==
    \A p \in Places :
        BlockAt(p).Type \notin KnownTypes =>
            /\ DOMAIN WireAt(p) = {"type", "text"}
            /\ WireAt(p).type = "text"
            /\ WireAt(p).text = "[Unsupported content block: " \o BlockAt(p).Type \o "]"

\* a block without a type that carries a text, a path and data
C18_Witness ==
    /\ Converted
    /\ last.messages = << UserMessage(<< ContentBlock("", "t", "p", "f", "d", "m") >>) >>
    /\ last.out[1].content = << WireText("[Unsupported content block: ]") >>

\* C19 as stated: the media type of a wire image is mediaType when it is not
\* empty and "image/" followed by format otherwise, for every combination of
\* empty and non-empty mediaType and format.
C19_MediaTypeOrFormat ==
    \A p \in Places :
        BlockAt(p).Type = "image" =>
            /\ WireAt(p).type = "image"
            /\ WireAt(p).source.type = "base64"
            /\ WireAt(p).source.data = BlockAt(p).Data
            /\ WireAt(p).source.media_type
                 = IF BlockAt(p).MediaType # "" THEN BlockAt(p).MediaType
                   ELSE "image/" \o BlockAt(p).Format

\* C19: an image block becomes a wire image with a base64 source and the data
\* unchanged; its media type is mediaType when that is not empty, "image/"
\* followed by format when only format is given, and empty when both are empty.
C19_ImageMediaType ==
    \A p \in Places :
        BlockAt(p).Type = "image" =>
            /\ DOMAIN WireAt(p) = {"type", "source"}
            /\ WireAt(p).type = "image"
            /\ WireAt(p).source.type = "base64"
            /\ WireAt(p).source.data = BlockAt(p).Data
            /\ WireAt(p).source.media_type
                 = CASE BlockAt(p).MediaType # "" -> BlockAt(p).MediaType
                     [] BlockAt(p).MediaType = "" /\ BlockAt(p).Format # "" ->
                           "image/" \o BlockAt(p).Format
                     [] OTHER -> ""

\* an image with neither a media type nor a format
C19_Witness ==
    /\ Converted
    /\ last.messages = << UserMessage(<< ContentBlock("image", "", "", "", "QUJD", "") >>) >>
    /\ last.out[1].content = << WireSource("image", "", "QUJD") >>

-----------------------------------------------------------------------------
(* Claims about MapModel *)

\* The names the tests expect for the four constants
KnownNames ==
    ("us.anthropic.claude-haiku-4-5-20251001-v1:0" :> "claude-haiku-4-5-20251001")
    @@ ("us.anthropic.claude-sonnet-4-5-20250929-v1:0" :> "claude-sonnet-4-5-20250929")
    @@ ("us.anthropic.claude-sonnet-4-6" :> "claude-sonnet-4-6")
    @@ ("us.anthropic.claude-sonnet-4-20250514-v1:0" :> "claude-sonnet-4-20250514")

\* C20: MapModel looks the id up in the table first; an id outside the table
\* that starts with "us.anthropic." loses exactly one such prefix; any other
\* id is returned unchanged, so the native names map to themselves.
C20_MapModelTableThenPrefix ==
    last.op = "MapModel" =>
        /\ last.id \in DOMAIN KnownNames => last.ret = KnownNames[last.id]
        /\ (last.id \notin DOMAIN KnownNames /\ HasPrefix(last.id, "us.anthropic."))
               => last.id = "us.anthropic." \o last.ret
        /\ (last.id \notin DOMAIN KnownNames /\ ~HasPrefix(last.id, "us.anthropic."))
               => last.ret = last.id
        /\ last.id \in { KnownNames[id] : id \in DOMAIN KnownNames } => last.ret = last.id

\* an id with the prefix twice loses it once
C20_Witness ==
    /\ last.op = "MapModel"
    /\ last.id = "us.anthropic.us.anthropic.claude-x"
    /\ last.ret = "us.anthropic.claude-x"

-----------------------------------------------------------------------------
(* Claims about InvokeResponse.Text *)

\* The strings of a list, joined without a separator
RECURSIVE Joined(_, _)
Joined(strs, n) == IF n = 0 THEN "" ELSE Joined(strs, n - 1) \o strs[n]

\* C21: Text() is the concatenation, in list order and without a separator,
\* of the text of exactly the content entries whose type is "text"; entries
\* of any other type add nothing and an empty content list gives "".
C21_TextConcatenatesTextEntries ==
    last.op = "Text" =>
        LET entries == SelectSeq(last.r.Content, LAMBDA c : c.Type = "text")
            strs == [k \in 1..Len(entries) |-> entries[k].Text]
        IN  /\ last.ret = Joined(strs, Len(strs))
            /\ last.r.Content = <<>> => last.ret = ""

\* two text entries around an entry of another type that carries a text
C21_Witness ==
    /\ last.op = "Text"
    /\ last.r.Content = << ResponseContent("text", "Hello "),
                           ResponseContent("tool_use", "Hello "),
                           ResponseContent("text", "world") >>
    /\ last.ret = "Hello world"

-----------------------------------------------------------------------------
(* Claims about Ask, AskWithSystem and AskAboutFile *)

AskOps == {"Ask", "AskWithSystem", "AskAboutFile"}

\* The blocks the operation op called with the arguments p puts in its message
AskContent(op, p) ==
    << [Type |-> "text", Text |-> p.prompt, Path |-> "", Format |-> "", Data |-> "",
        MediaType |-> ""] >>
    \o (IF op = "AskAboutFile"
        THEN << [Type |-> "efs_document", Text |-> "", Path |-> p.filePath, Format |-> "",
                 Data |-> "", MediaType |-> ""] >>
        ELSE << >>)

\* C22: a step of Ask, AskWithSystem or AskAboutFile hands the backend one
\* request that holds one message of role user: the prompt as its only text
\* block (with the system prompt set by AskWithSystem only), followed by an
\* efs_document block for the path in AskAboutFile.  The caller gets Text() of
\* the backend's response when the backend succeeds, and "" with the
\* backend's own error when it fails.
C22_AskBuildsOneUserMessage ==
    [][ last'.op \in AskOps =>
          LET p == last'.params
              sent == last'.req
          IN  /\ sent.Model = p.model
              /\ sent.Messages = << [Role |-> "user", Content |-> AskContent(last'.op, p)] >>
              /\ sent.System = (IF last'.op = "AskWithSystem" THEN p.system ELSE "")
              /\ g.backend = MockType =>
                     /\ callLog' = Append(callLog, sent)
                     /\ last'.err = NoError
              /\ g.backend = LambdaType =>
                     IF last'.reply = NoReply THEN channel' = channel
                     ELSE /\ channel' = Append(channel,
                                               [FunctionName |-> b.functionName,
                                                Payload |-> MarshalRequest(sent)])
                          /\ last'.err = callResult(InvokeResponseType, InvokeResponseZero,
                                                    TRUE, last'.reply).err
              /\ g.backend = AnthropicType =>
                     /\ Len(http') = Len(http) + 1
                     /\ Len(http'[Len(http')].body.messages) = 1
                     /\ http'[Len(http')].body.messages[1].role = "user"
                     /\ http'[Len(http')].body.messages[1].content[1]
                            = [type |-> "text", text |-> p.prompt]
                     /\ http'[Len(http')].body.system = sent.System
                     /\ last'.err = anthropicResult(last'.reply).err
              /\ IF last'.err = NoError
                 THEN /\ last'.resp # NoResponse
                      /\ last'.ret = Text(last'.resp)
                 ELSE last'.ret = "" ]_vars

\* AskAboutFile on a mock with a registered response: the request in the log
\* has the prompt first and the file second, and the caller gets the text
C22_Witness ==
    /\ last.op = "AskAboutFile"
    /\ g.backend = MockType
    /\ last.params.filePath = "doc.pdf"
    /\ callLog = << last.req >>
    /\ last.req.Messages[1].Content[1].Text = "Hello"
    /\ last.req.Messages[1].Content[2].Type = "efs_document"
    /\ last.req.Messages[1].Content[2].Path = "doc.pdf"
    /\ last.resp = Canned("first")
    /\ last.ret = "first"

-----------------------------------------------------------------------------
(* Claims about the mock backend's budget and frame *)

\* C23: CheckBudget of the mock always succeeds with the same budget: period
\* "mock", period budget and remaining 100, execution budget and remaining
\* 10, whatever the run id (the empty one too) and whatever SetResponse,
\* SetResponses and Invoke calls came before.
C23_MockBudgetFixed ==
    last.op = "CheckBudget" =>
        /\ last.err = NoError
        /\ last.resp.BudgetPeriod = "mock"
        /\ last.resp.PeriodBudgetUsd = 100
        /\ last.resp.PeriodRemainingUsd = 100
        /\ last.resp.ExecutionBudgetUsd = 10
        /\ last.resp.ExecutionRemainingUsd = 10
        /\ last.resp.PeriodUsedUsd = 0
        /\ last.resp.ExecutionUsedUsd = 0

\* the budget asked for without a run id after three calls, with a response
\* still registered
C23_Witness ==
    /\ last.op = "CheckBudget"
    /\ last.runID = ""
    /\ Len(callLog) = MaxCalls
    /\ responses # << >>
    /\ last.resp.PeriodRemainingUsd = 100
    /\ last.resp.ExecutionRemainingUsd = 10

\* C27: what each operation of the mock leaves alone.  SetResponse and
\* SetResponses replace the whole queue by what they are given, entries not yet
\* consumed included, and leave the call log as it was; Invoke leaves a queue
\* of no or one entry as it was and otherwise removes exactly its first entry;
\* CheckBudget, ListModels and Calls change neither the queue nor the call
\* log; and after SetResponses with an empty sequence the queue is empty, so
\* that the next Invoke answers with the default echo.
C27_MockFrame ==
    [][ /\ last'.op = "SetResponse" =>
              responses' = << last'.resp >> /\ callLog' = callLog
        /\ last'.op = "SetResponses" =>
              responses' = last'.rs /\ callLog' = callLog
        /\ last'.op = "Invoke" =>
              responses' = IF Len(responses) <= 1 THEN responses ELSE Tail(responses)
        /\ last'.op \in {"CheckBudget", "ListModels", "Calls"} =>
              responses' = responses /\ callLog' = callLog
        /\ (last.op = "SetResponses" /\ last.rs = <<>> /\ last'.op = "Invoke") =>
              /\ last'.err = NoError
              /\ last'.resp = InvokeResponse(
                    << ResponseContent("text", "[mock] " \o EchoPrompt(last'.req)) >>,
                    last'.req.Model, "end_turn")
      ]_vars

\* the third call answered by the default echo: the queue was emptied by
\* SetResponses after two calls had been answered
C27_Witness ==
    /\ last.op = "Invoke"
    /\ Len(callLog) = MaxCalls
    /\ hist = [installed |-> <<>>, answered |-> 1]
    /\ responses = <<>>
    /\ last.resp.Content = << ResponseContent("text", "[mock] a") >>

-----------------------------------------------------------------------------
(* One facade in a process whose environment changes.  NewGovernor reads the
   environment of the process (os.Getenv); os.Setenv, by the program or by a
   test's t.Setenv, may change a variable at any time, before the facade is
   built or between two of its calls. *)

EnvOptionLists ==
    { o \in OptionLists :
        /\ o.functionName \in {NotPassed, With("explicit-func")}
        /\ o.executionRunID \in {NotPassed, With("custom-run")}
        /\ o.lambdaClient = NotPassed
        /\ o.backend \in {NotPassed, With(MockType)} }

EnvRequests == { req \in Requests : req.Messages # <<>> }

\* os.Setenv(key, value)
Setenv(key, value) ==
    /\ environ[key] # value
    /\ environ' = [environ EXCEPT ![key] = value]
    /\ last' = [op |-> "Setenv", key |-> key, value |-> value]
    /\ UNCHANGED <<g, lambdaVars, anthropicVars, responses, callLog, mu, hist, thr>>

InitEnv ==
    /\ g = NoGovernor
    /\ b = NewLambdaBackend("", Nil)
    /\ a = [apiKey |-> ""]
    /\ responses = <<>>
    /\ callLog = <<>>
    /\ mu = Unlocked
    /\ channel = <<>>
    /\ http = <<>>
    /\ hist = [installed |-> <<>>, answered |-> 0]
    /\ thr = [c \in Callers |-> [pc |-> "idle"]]
    /\ last = [op |-> "start"]
    /\ environ \in Environments

NextEnv ==
    \/ \E opts \in EnvOptionLists : NewGovernor(environ, opts) /\ UNCHANGED <<thr, environ>>
    \/ \E key \in DOMAIN environ, env \in Environments : Setenv(key, env[key])
    \/ Governor_Available /\ UNCHANGED <<thr, environ>>
    \/ Governor_Backend /\ UNCHANGED <<thr, environ>>
    \/ \E req \in EnvRequests : Governor_Invoke(Nil, req) /\ UNCHANGED <<thr, environ>>
    \/ Ask(Nil, ModelHaiku45, "Hello") /\ UNCHANGED <<thr, environ>>
    \/ AskWithSystem(Nil, ModelHaiku45, "sys", "Hello") /\ UNCHANGED <<thr, environ>>
    \/ AskAboutFile(Nil, ModelSonnet46, "Hello", "doc.pdf") /\ UNCHANGED <<thr, environ>>
    \/ Governor_CheckBudget(Nil) /\ UNCHANGED <<thr, environ>>
    \/ Governor_ListModels(Nil) /\ UNCHANGED <<thr, environ>>

SpecEnv == InitEnv /\ [][NextEnv]_vars

\* What the environment would select if the backend were resolved now
SelectedNow == selectBackend(environ.LLM_GOVERNOR_FUNCTION, environ.ANTHROPIC_API_KEY)

\* The call went to the backend of type t and to no other
ServedBy(t) ==
    /\ (t = MockType) = (callLog' # callLog)
    /\ t # LambdaType => channel' = channel
    /\ (t = AnthropicType) = (http' # http)

\* C26: the backend is resolved once, at construction: once NewGovernor has
\* returned, no step (a change of an environment variable, or a call of
\* Available, Backend, Invoke, Ask, AskWithSystem, AskAboutFile, CheckBudget or
\* ListModels) changes the backend, function name or default run id the facade
\* holds, nor the function name and key its backend holds; and every call
\* answers from what is held: Available and Backend from the held backend, a
\* request without run id gets the held run id, the call is served by the held
\* backend, and a budget check asks for the held run id.
C26_BackendResolvedOnce ==
    [][ g # NoGovernor =>
          /\ g' = g
          /\ b'.functionName = b.functionName
          /\ a' = a
          /\ last'.op = "Available" => last'.ret = (g.backend # MockType)
          /\ last'.op = "Backend" => last'.ret = g.backend
          /\ last'.op = "Setenv" => UNCHANGED <<responses, callLog, channel, http>>
          /\ (last'.op \in InvokeOps /\ last' # last) =>
                /\ last'.req.ExecutionRunID =
                      IF last'.arg.ExecutionRunID = "" THEN g.executionRunID
                      ELSE last'.arg.ExecutionRunID
                /\ ServedBy(g.backend)
          /\ (last'.op = "CheckBudget" /\ channel' # channel) =>
                channel'[Len(channel')] =
                    [FunctionName |-> b.functionName,
                     Payload |-> CheckBudgetPayload(g.executionRunID)]
      ]_vars

\* a call served by the mock the facade holds, its request given the held run id,
\* while the environment by now names a Lambda function and another run id
C26_Witness ==
    /\ g # NoGovernor
    /\ g.backend = MockType
    /\ SelectedNow = LambdaType
    /\ environ.EXECUTION_RUN_ID # g.executionRunID
    /\ last.op = "Ask"
    /\ last.req.ExecutionRunID = g.executionRunID
    /\ Len(callLog) = 1
    /\ channel = <<>>

====
